---- MODULE Spec2Model ----
(***************************************************************************)
(* SignalForge: the signal ranking and integrity-scoring pipeline.         *)
(*                                                                         *)
(* The module models, operation by operation, the exact-duplicate          *)
(* clusterer (clusterItems), the idea clusterer (clusterIdeas with         *)
(* buildSignature, extractHost, deriveEvidenceGrade), the integrity scorer *)
(* (calculateIntegrityScore), the run identifier (buildRunId), the run     *)
(* store (insertRun) and the run pipeline (runEngine).                     *)
(*                                                                         *)
(* Conventions.  A text is the sequence of its maximal alphanumeric runs   *)
(* (what /[a-z0-9]+/g matches once lower-cased); a query is a sequence of  *)
(* characters; sha1/sha256 truncations are collision-free tags of their    *)
(* argument; JavaScript numbers that are not integers are exact rationals  *)
(* <<numerator, denominator>> with a positive denominator.                 *)
(***************************************************************************)
EXTENDS Integers, Sequences, FiniteSets, TLC

VARIABLES
  phase,        \* clustering pipeline: "collect", "clustered", "ideas"
  policyKept,   \* the records handed to clusterItems (input order)
  clustered,    \* clusterItems(policyKept)
  ideaClustered,\* clusterIdeas(clustered).items
  ideaClusters, \* clusterIdeas(clustered).clusters
  integrityInput,  \* <<input>>: the argument of calculateIntegrityScore
  integrityResult, \* <<>> before the call, <<result>> after it
  requests,     \* the buildRunId calls made so far, each with its result
  uuidsDrawn,   \* how many values crypto.randomUUID() has handed out
  runsTable,    \* table runs: the set of its rows
  itemsTable,   \* table items: its rows in rowid order
  storage,      \* which insertRun is built in: "db.ts" or "schema.sql"
  insertCalls,  \* the insertRun calls made so far, each with its outcome
  artifacts,    \* the run folders on disk: folder -> file -> content
  responses,    \* the runEngine calls made so far, each with its outcome
  timestampCalls, \* the assignTimestampTier / isWithinWindow calls made so far
  policyCalls,  \* the applyTimestampPolicy calls made so far
  collectCalls, \* the collectSources calls made so far
  baselineCalls,\* the fetchBaselineItems calls made so far
  routeCalls,   \* the POST /run requests answered so far
  anchorCalls,  \* the runs that looked up baseline anchors, in order
  t4Calls,      \* runs of one batch under allow_t4 = true and false
  fetchRun      \* one call of a collector's fetch helper, as far as it got

clusterVars == <<phase, policyKept, clustered, ideaClustered, ideaClusters>>

integrityVars == <<integrityInput, integrityResult>>

runIdVars == <<requests, uuidsDrawn>>

storeVars == <<runsTable, itemsTable, storage, insertCalls>>

runVars == <<artifacts, responses>>

callVars ==
  <<timestampCalls, policyCalls, collectCalls, baselineCalls, routeCalls, anchorCalls,
    t4Calls, fetchRun>>

vars == <<clusterVars, integrityVars, runIdVars, storeVars, runVars, callVars>>

-----------------------------------------------------------------------------
(* Bounds of the model *)

MaxItems == 2

MaxTierCount == 1

MaxUuids == 2

MaxInserts == 2

MaxRuns == 2

-----------------------------------------------------------------------------
(* Generic helpers *)

Range(s) == {s[i] : i \in 1..Len(s)}

Min2(a, b) == IF a <= b THEN a ELSE b

Max2(a, b) == IF a >= b THEN a ELSE b

(* exact rationals <<n, d>>, d > 0 *)
RatLe(a, b) == a[1] * b[2] <= b[1] * a[2]

RatLt(a, b) == a[1] * b[2] < b[1] * a[2]

RatEq(a, b) == a[1] * b[2] = b[1] * a[2]

RatAdd(a, b) == <<a[1] * b[2] + b[1] * a[2], a[2] * b[2]>>

RatSub(a, b) == <<a[1] * b[2] - b[1] * a[2], a[2] * b[2]>>

RatMul(a, b) == <<a[1] * b[1], a[2] * b[2]>>

RatMin(a, b) == IF RatLe(a, b) THEN a ELSE b

RatMax(a, b) == IF RatLe(b, a) THEN a ELSE b

(* Math.round: the nearest integer, halves towards +Infinity *)
MathRound(a) == (2 * a[1] + a[2]) \div (2 * a[2])

-----------------------------------------------------------------------------
(* crypto.createHash(..).digest("hex").slice(0, n): a collision-free tag *)

hashValue(value) == <<"sha1", value>>

-----------------------------------------------------------------------------
(* Exact-duplicate clusterer *)

RECURSIVE clusterItemsSeen(_, _)
clusterItemsSeen(items, seen) ==
  IF items = <<>> THEN seen
  ELSE LET item == Head(items)
       IN  clusterItemsSeen(Tail(items),
             IF \E k \in 1..Len(seen) : seen[k].url = item.url
             THEN seen
             ELSE Append(seen, item))

(* mutant: seen.set on every record: the last record of a url is kept, at the
   place of the first *)
clusterItemsLastSeen(items) ==
  LET seen == clusterItemsSeen(items, <<>>)
      lastOf(url) ==
        items[CHOOSE i \in 1..Len(items) :
                /\ items[i].url = url
                /\ \A j \in 1..Len(items) : items[j].url = url => j <= i]
  IN  [k \in 1..Len(seen) |-> lastOf(seen[k].url) @@ [cluster_id |-> hashValue(seen[k].url)]]

(* mutant: the has(url) test dropped, every record survives *)
clusterItemsNoDedup(items) ==
  [k \in 1..Len(items) |-> items[k] @@ [cluster_id |-> hashValue(items[k].url)]]

clusterItems(items) ==
  LET seen == clusterItemsSeen(items, <<>>)
  IN  [k \in 1..Len(seen) |-> seen[k] @@ [cluster_id |-> hashValue(seen[k].url)]]

-----------------------------------------------------------------------------
(* Idea clusterer: signature extraction *)

STOPWORDS ==
  {"a", "about", "above", "after", "again", "against", "all", "and", "any",
   "are", "as", "at", "be", "because", "been", "before", "being", "below",
   "between", "both", "but", "by", "can", "could", "did", "do", "does",
   "doing", "down", "during", "each", "few", "for", "from", "further", "had",
   "has", "have", "having", "he", "her", "here", "hers", "herself", "him",
   "himself", "his", "how", "i", "if", "in", "into", "is", "it", "its",
   "itself", "just", "me", "more", "most", "my", "myself", "no", "nor",
   "not", "now", "of", "off", "on", "once", "only", "or", "other", "our",
   "ours", "ourselves", "out", "over", "own", "same", "she", "should", "so",
   "some", "such", "than", "that", "the", "their", "theirs", "them",
   "themselves", "then", "there", "these", "they", "this", "those",
   "through", "to", "too", "under", "until", "up", "very", "was", "we",
   "were", "what", "when", "where", "which", "while", "who", "whom", "why",
   "with", "you", "your", "yours", "yourself", "yourselves"}

SIGNATURE_TOKEN_COUNT == 5

(* String.prototype.toLowerCase on the words of the model *)
toLowerCase(word) ==
  CASE word = "SignalForge" -> "signalforge"
    [] word = "CLI" -> "cli"
    [] word = "Quantum" -> "quantum"
    [] word = "The" -> "the"
    [] OTHER -> word

(* token.length of the lower-cased words of the model *)
tokenLength(token) ==
  CASE token = "agent" -> 5
    [] token = "cli" -> 3
    [] token = "launch" -> 6
    [] token = "leak" -> 4
    [] token = "misc" -> 4
    [] token = "of" -> 2
    [] token = "quantum" -> 7
    [] token = "signalforge" -> 11
    [] token = "the" -> 3
    [] token = "v2" -> 2
    [] token = "widget" -> 6

(* the lower-cased words of the model in localeCompare / code-unit order *)
TokenOrder ==
  <<"agent", "cli", "launch", "leak", "misc", "of", "quantum", "signalforge",
    "the", "v2", "widget">>

tokenRank(token) == CHOOSE i \in 1..Len(TokenOrder) : TokenOrder[i] = token

tokenKeep(token) == tokenLength(token) >= 3 /\ token \notin STOPWORDS

tokenize(text) ==
  LET matches == [i \in 1..Len(text) |-> toLowerCase(text[i])]
  IN  SelectSeq(matches, tokenKeep)

countOf(tokens, token) == Cardinality({i \in 1..Len(tokens) : tokens[i] = token})

(* a before b in the comparator of topTokens: count descending, token ascending *)
topTokenBefore(tokens, a, b) ==
  \/ countOf(tokens, a) > countOf(tokens, b)
  \/ countOf(tokens, a) = countOf(tokens, b) /\ tokenRank(a) < tokenRank(b)

RECURSIVE sortTopTokens(_, _)
sortTopTokens(tokens, rest) ==
  IF rest = {} THEN <<>>
  ELSE LET first == CHOOSE a \in rest :
                      \A b \in rest \ {a} : topTokenBefore(tokens, a, b)
       IN  <<first>> \o sortTopTokens(tokens, rest \ {first})

RECURSIVE sortTokens(_)
sortTokens(rest) ==
  IF rest = {} THEN <<>>
  ELSE LET first == CHOOSE a \in rest :
                      \A b \in rest \ {a} : tokenRank(a) < tokenRank(b)
       IN  <<first>> \o sortTokens(rest \ {first})

(* signature: the "|"-joined tokens, kept as their sequence; "misc" is the
   one-token string the sentinel and a lone token misc both give *)
buildSignature(title, snippet) ==
  LET tokens == tokenize(title \o snippet)
      sorted == sortTopTokens(tokens, Range(tokens))
      topTokens == SubSeq(sorted, 1, Min2(SIGNATURE_TOKEN_COUNT, Len(sorted)))
  IN  IF Len(topTokens) = 0
      THEN [signature |-> <<"misc">>, label |-> <<"misc">>]
      ELSE [signature |-> sortTokens(Range(topTokens)),
            label |-> sortTokens(Range(topTokens))]

-----------------------------------------------------------------------------
(* Idea clusterer: origins *)

(* new URL(url).hostname on the urls of the model; "throw" when the
   constructor throws, "" when the url has no host *)
urlHostname(url) ==
  CASE url = "https://a.example/1" -> "a.example"
    [] url = "https://a.example/2" -> "a.example"
    [] url = "https://b.example/1" -> "b.example"
    [] url = "file:///a" -> ""
    [] url = "file:///b" -> ""
    [] url = "not a url" -> "throw"

(* mutant: the whole url taken as the host *)
extractHostWholeUrl(url) == url

extractHost(url) ==
  LET hostname == urlHostname(url)
  IN  IF hostname = "throw" THEN url
      ELSE IF hostname # "" THEN hostname ELSE url

clamp01(value) ==
  IF value[1] < 0 THEN <<0, 1>>
  ELSE IF value[1] > value[2] THEN <<1, 1>>
  ELSE value

-----------------------------------------------------------------------------
(* Idea clusterer: evidence grading *)

categorizeSource(source) ==
  IF source = "reddit" \/ source = "hn" THEN "discussion"
  ELSE IF source = "github_issue" \/ source = "github_release" THEN "implementation"
  ELSE IF source = "youtube" THEN "demonstration"
  ELSE "web"

(* mutant: web counted among the graded categories *)
deriveEvidenceGradeWebGraded(sources) ==
  LET categories == {categorizeSource(sources[i]) : i \in 1..Len(sources)}
      categoryCount == Cardinality(categories)
      hasImplementation == "implementation" \in categories
  IN  IF categoryCount >= 2 THEN "multi-confirmed"
      ELSE IF hasImplementation THEN "implementation-confirmed"
      ELSE "discussion-only"

deriveEvidenceGrade(sources) ==
  LET categories == {categorizeSource(sources[i]) : i \in 1..Len(sources)}
      gradedCategories == {category \in categories : category # "web"}
      categoryCount == Cardinality(gradedCategories)
      hasImplementation == "implementation" \in categories
  IN  IF categoryCount >= 2 THEN "multi-confirmed"
      ELSE IF hasImplementation THEN "implementation-confirmed"
      ELSE "discussion-only"

-----------------------------------------------------------------------------
(* Idea clusterer *)

(* mutant: the idea cluster id hashed from host and signature *)
prepareIdeaHostInIdeaId(item) ==
  LET sig == buildSignature(item.title, item.snippet)
  IN  [item |-> item,
       signature |-> sig.signature,
       label |-> sig.label,
       idea_cluster_id |-> hashValue(<<extractHost(item.url), "|", sig.signature>>),
       origin_id |-> hashValue(<<extractHost(item.url), "|", sig.signature>>)]

prepareIdea(item) ==
  LET sig == buildSignature(item.title, item.snippet)
  IN  [item |-> item,
       signature |-> sig.signature,
       label |-> sig.label,
       idea_cluster_id |-> hashValue(sig.signature),
       origin_id |-> hashValue(<<extractHost(item.url), "|", sig.signature>>)]

(* the keys of the clusters Map, in insertion order *)
RECURSIVE ideaClusterKeys(_, _)
ideaClusterKeys(prepared, keys) ==
  IF prepared = <<>> THEN keys
  ELSE ideaClusterKeys(Tail(prepared),
         IF \E k \in 1..Len(keys) : keys[k] = Head(prepared).idea_cluster_id
         THEN keys
         ELSE Append(keys, Head(prepared).idea_cluster_id))

(* mutant: the complement forgotten *)
echoRiskNoComplement(originCount, itemCount) ==
  clamp01(<<originCount, itemCount>>)

echoRiskOf(originCount, itemCount) ==
  clamp01(<<itemCount - originCount, itemCount>>)

summarizeIdeaCluster(prepared, id) ==
  LET inCluster(entry) == entry.idea_cluster_id = id
      items == SelectSeq(prepared, inCluster)
      originCount == Cardinality({items[i].origin_id : i \in 1..Len(items)})
      itemCount == Len(items)
  IN  [id |-> id,
       label |-> items[1].label,
       origin_count |-> originCount,
       echo_risk |-> echoRiskOf(originCount, itemCount),
       evidence_grade |->
         deriveEvidenceGrade([i \in 1..Len(items) |-> items[i].item.source]),
       item_count |-> itemCount]

clusterIdeas(items) ==
  LET prepared == [i \in 1..Len(items) |-> prepareIdea(items[i])]
      keys == ideaClusterKeys(prepared, <<>>)
      clusterSummaries ==
        [k \in 1..Len(keys) |-> summarizeIdeaCluster(prepared, keys[k])]
      summaryOf(id) ==
        clusterSummaries[CHOOSE k \in 1..Len(keys) : keys[k] = id]
  IN  [items |->
         [i \in 1..Len(prepared) |->
            LET summary == summaryOf(prepared[i].idea_cluster_id)
            IN  prepared[i].item @@
                [idea_cluster_id |-> prepared[i].idea_cluster_id,
                 idea_label |-> summary.label,
                 origin_id |-> prepared[i].origin_id,
                 origin_count |-> summary.origin_count,
                 echo_risk |-> summary.echo_risk,
                 evidence_grade |-> summary.evidence_grade]],
       clusters |-> clusterSummaries]

-----------------------------------------------------------------------------
(* The clustering stages of runEngine: the records that passed the window
   and tier filters go through clusterItems, then clusterIdeas *)

TextA == [title |-> <<"SignalForge", "CLI", "launch">>,
          snippet |-> <<"The", "launch", "of", "SignalForge", "v2">>]

TextB == [title |-> <<"signalforge", "cli", "launch">>, snippet |-> <<>>]

TextC == [title |-> <<"Quantum", "widget", "leak", "agent", "cli">>,
          snippet |-> <<"launch">>]

TextD == [title |-> <<"agent", "cli", "launch", "leak", "quantum">>,
          snippet |-> <<"signalforge">>]

TextE == [title |-> <<"The", "of">>, snippet |-> <<"v2">>]

TextF == [title |-> <<"misc">>, snippet |-> <<>>]

ClusterTexts == {TextA, TextB, TextC}

ClusterUrls ==
  {"https://a.example/1", "https://a.example/2", "https://b.example/1",
   "file:///a", "file:///b"}

ClusterSources == {"reddit", "github_issue"}

GradeTexts == {TextD, TextE, TextF}

GradeUrls ==
  <<"not a url", "https://a.example/1", "file:///a", "https://b.example/1",
    "https://a.example/2", "file:///b">>

AllSources ==
  {"reddit", "hn", "github_issue", "github_release", "youtube", "web", "mastodon"}

RecentIso == "2024-02-08T12:00:00.000Z"

CollectedItem(text, url, source, publishedAt) ==
  [title |-> text.title, url |-> url, snippet |-> text.snippet,
   published_at |-> publishedAt, source |-> source]

(* the parts of the state a specification does not use stay as they start *)
IdleCalls ==
  /\ timestampCalls = <<>>
  /\ policyCalls = <<>>
  /\ collectCalls = <<>>
  /\ baselineCalls = <<>>
  /\ routeCalls = <<>>
  /\ anchorCalls = <<>>
  /\ t4Calls = <<>>
  /\ fetchRun = <<>>

IdleCluster ==
  /\ phase = "collect"
  /\ policyKept = <<>>
  /\ clustered = <<>>
  /\ ideaClustered = <<>>
  /\ ideaClusters = <<>>

IdleIntegrity ==
  /\ integrityInput = <<>>
  /\ integrityResult = <<>>

IdleRunId ==
  /\ requests = <<>>
  /\ uuidsDrawn = 0

IdleStore ==
  /\ storage = "schema.sql"
  /\ runsTable = {}
  /\ itemsTable = <<>>
  /\ insertCalls = <<>>

IdleRun ==
  /\ artifacts = <<>>
  /\ responses = <<>>

InitCluster ==
  /\ IdleCluster
  /\ IdleCalls
  /\ IdleIntegrity
  /\ IdleRunId
  /\ IdleStore
  /\ IdleRun

(* a collector hands over one more record *)
AddItem ==
  /\ phase = "collect"
  /\ Len(policyKept) < MaxItems
  /\ \E text \in ClusterTexts, url \in ClusterUrls, source \in ClusterSources :
       policyKept' = Append(policyKept, CollectedItem(text, url, source, RecentIso))
  /\ UNCHANGED <<phase, clustered, ideaClustered, ideaClusters>>
  /\ UNCHANGED <<integrityVars, runIdVars, storeVars, runVars>>
  /\ UNCHANGED callVars

(* a collector hands over one more record, of any source, under a fresh url *)
AddSourcedItem ==
  /\ phase = "collect"
  /\ Len(policyKept) < MaxItems
  /\ \E text \in GradeTexts, source \in AllSources :
       policyKept' = Append(policyKept,
         CollectedItem(text, GradeUrls[Len(policyKept) + 1], source, RecentIso))
  /\ UNCHANGED <<phase, clustered, ideaClustered, ideaClusters>>
  /\ UNCHANGED <<integrityVars, runIdVars, storeVars, runVars>>
  /\ UNCHANGED callVars

ClusterItems ==
  /\ phase = "collect"
  /\ clustered' = clusterItems(policyKept)
  /\ phase' = "clustered"
  /\ UNCHANGED <<policyKept, ideaClustered, ideaClusters>>
  /\ UNCHANGED <<integrityVars, runIdVars, storeVars, runVars>>
  /\ UNCHANGED callVars

ClusterIdeas ==
  /\ phase = "clustered"
  /\ ideaClustered' = clusterIdeas(clustered).items
  /\ ideaClusters' = clusterIdeas(clustered).clusters
  /\ phase' = "ideas"
  /\ UNCHANGED <<policyKept, clustered>>
  /\ UNCHANGED <<integrityVars, runIdVars, storeVars, runVars>>
  /\ UNCHANGED callVars

NextCluster == AddItem \/ ClusterItems \/ ClusterIdeas

SpecCluster == InitCluster /\ [][NextCluster]_vars

NextGrade == AddSourcedItem \/ ClusterItems \/ ClusterIdeas

SpecGrade == InitCluster /\ [][NextGrade]_vars

-----------------------------------------------------------------------------
(* C1. Dedup invariant: the output of clusterItems holds no two items with
   the same url, and as many items as the input has distinct urls. *)
C1_DedupInvariant ==
  phase # "collect" =>
    /\ \A i, j \in 1..Len(clustered) :
         clustered[i].url = clustered[j].url => i = j
    /\ Len(clustered) = Cardinality({policyKept[i].url : i \in 1..Len(policyKept)})

C1_Witness ==
  /\ phase = "clustered"
  /\ Len(policyKept) >= 2
  /\ Len(clustered) < Len(policyKept)

(* the index in the input of the first record with this url *)
C22_FirstIndex(url) ==
  CHOOSE i \in 1..Len(policyKept) :
    /\ policyKept[i].url = url
    /\ \A j \in 1..Len(policyKept) : policyKept[j].url = url => i <= j

(* C22. First-seen wins: every url of the input has exactly one survivor in
   the output of clusterItems; the survivor carries the title, snippet, source
   and published_at of the first input record with that url; and the
   survivors are in the order of their first occurrences. *)
C22_FirstSeenWins ==
  phase # "collect" =>
    /\ {clustered[k].url : k \in 1..Len(clustered)}
         = {policyKept[i].url : i \in 1..Len(policyKept)}
    /\ \A k \in 1..Len(clustered) :
         LET first == policyKept[C22_FirstIndex(clustered[k].url)]
         IN  /\ clustered[k].title = first.title
             /\ clustered[k].snippet = first.snippet
             /\ clustered[k].source = first.source
             /\ clustered[k].published_at = first.published_at
             /\ \A other \in 1..Len(clustered) :
                  clustered[k].url = clustered[other].url => k = other
    /\ \A k, l \in 1..Len(clustered) :
         k < l => C22_FirstIndex(clustered[k].url) < C22_FirstIndex(clustered[l].url)

(* two records share a url and differ in title and source; the first is kept *)
C22_Witness ==
  /\ phase = "clustered"
  /\ Len(policyKept) = 2
  /\ policyKept[1].url = policyKept[2].url
  /\ policyKept[1].title # policyKept[2].title
  /\ policyKept[1].source # policyKept[2].source
  /\ Len(clustered) = 1
  /\ clustered[1].title = policyKept[1].title

(* C2. Idea-cluster equivalence: two records whose title and snippet give
   the same token signature get the same idea_cluster_id, whatever their
   source and url. *)
C2_IdeaClusterEquivalence ==
  phase = "ideas" =>
    \A i, j \in 1..Len(ideaClustered) :
      buildSignature(ideaClustered[i].title, ideaClustered[i].snippet).signature
        = buildSignature(ideaClustered[j].title, ideaClustered[j].snippet).signature
      => ideaClustered[i].idea_cluster_id = ideaClustered[j].idea_cluster_id

C2_Witness ==
  /\ phase = "ideas"
  /\ \E i, j \in 1..Len(ideaClustered) :
       /\ ideaClustered[i].title # ideaClustered[j].title
       /\ ideaClustered[i].source # ideaClustered[j].source
       /\ extractHost(ideaClustered[i].url) # extractHost(ideaClustered[j].url)
       /\ ideaClustered[i].idea_cluster_id = ideaClustered[j].idea_cluster_id

(* C3. Echo risk bound: for every idea cluster 0 <= echo_risk <= 1, and
   echo_risk = 0 exactly when origin_count = item_count. *)
C3_EchoRiskBound ==
  phase = "ideas" =>
    \A k \in 1..Len(ideaClusters) :
      LET c == ideaClusters[k]
      IN  /\ RatLe(<<0, 1>>, c.echo_risk)
          /\ RatLe(c.echo_risk, <<1, 1>>)
          /\ RatEq(c.echo_risk, <<0, 1>>) <=> c.origin_count = c.item_count

C3_Witness ==
  /\ phase = "ideas"
  /\ \E k \in 1..Len(ideaClusters) :
       /\ ideaClusters[k].origin_count < ideaClusters[k].item_count
       /\ RatLt(<<0, 1>>, ideaClusters[k].echo_risk)

(* the members of an idea cluster, as annotated in the output items *)
MembersOf(id) == {i \in 1..Len(ideaClustered) : ideaClustered[i].idea_cluster_id = id}

(* C4 as claimed: origin_count is the number of distinct url hostnames among
   the members (a url that does not parse counted by itself), so members on
   one hostname are one origin; and 1 <= origin_count <= item_count. *)
C4_OriginCountIsHostnameCount ==
  phase = "ideas" =>
    \A k \in 1..Len(ideaClusters) :
      LET c == ideaClusters[k]
          hostnameOf(url) ==
            IF urlHostname(url) = "throw" THEN url ELSE urlHostname(url)
      IN  /\ c.origin_count =
               Cardinality({hostnameOf(ideaClustered[i].url) : i \in MembersOf(c.id)})
          /\ 1 <= c.origin_count
          /\ c.origin_count <= c.item_count

(* C4 amended: origin_count is the number of distinct hosts among the
   members, the host of a url being its hostname when the url parses with a
   non-empty hostname and the whole url string otherwise; members on one
   non-empty hostname are one origin; and 1 <= origin_count <= item_count. *)
C4_OriginCountIsHostCount ==
  phase = "ideas" =>
    \A k \in 1..Len(ideaClusters) :
      LET c == ideaClusters[k]
          hostOf(url) ==
            IF urlHostname(url) \in {"throw", ""} THEN url ELSE urlHostname(url)
      IN  /\ c.origin_count =
               Cardinality({hostOf(ideaClustered[i].url) : i \in MembersOf(c.id)})
          /\ c.item_count = Cardinality(MembersOf(c.id))
          /\ 1 <= c.origin_count
          /\ c.origin_count <= c.item_count

C4_Witness ==
  /\ phase = "ideas"
  /\ \E k \in 1..Len(ideaClusters) :
       /\ ideaClusters[k].item_count = 2
       /\ ideaClusters[k].origin_count = 1
       /\ \A i \in MembersOf(ideaClusters[k].id) :
            urlHostname(ideaClustered[i].url) = "a.example"

(* C5. Evidence grading: with categories the source categories of a
   cluster's members and graded = categories without web, the grade is
   multi-confirmed if graded has at least 2 elements, otherwise
   implementation-confirmed if implementation is among the categories,
   otherwise discussion-only. *)
C5_CategoryOf(source) ==
  CASE source \in {"reddit", "hn"} -> "discussion"
    [] source \in {"github_issue", "github_release"} -> "implementation"
    [] source = "youtube" -> "demonstration"
    [] OTHER -> "web"

C5_EvidenceGrading ==
  phase = "ideas" =>
    \A k \in 1..Len(ideaClusters) :
      LET c == ideaClusters[k]
          categories == {C5_CategoryOf(ideaClustered[i].source) : i \in MembersOf(c.id)}
          graded == categories \ {"web"}
      IN  /\ c.evidence_grade =
               IF Cardinality(graded) >= 2 THEN "multi-confirmed"
               ELSE IF "implementation" \in categories THEN "implementation-confirmed"
               ELSE "discussion-only"
          /\ \A i \in MembersOf(c.id) : ideaClustered[i].evidence_grade = c.evidence_grade

C5_Witness ==
  /\ phase = "ideas"
  /\ \E k \in 1..Len(ideaClusters) :
       /\ ideaClusters[k].evidence_grade = "implementation-confirmed"
       /\ \E i \in MembersOf(ideaClusters[k].id) : ideaClustered[i].source \in {"web", "mastodon"}
       /\ \E i \in MembersOf(ideaClusters[k].id) : ideaClustered[i].source = "github_release"

-----------------------------------------------------------------------------
(* Integrity scorer *)

SOURCE_FAILURE_FLAGS ==
  <<<<"REDDIT_FETCH_FAILED", "SOURCE_FAILURE_REDDIT">>,
    <<"HN_FETCH_FAILED", "SOURCE_FAILURE_HN">>,
    <<"GITHUB_FETCH_FAILED", "SOURCE_FAILURE_GITHUB">>>>

(* Array.prototype.includes *)
includes(list, value) == \E i \in 1..Len(list) : list[i] = value

(* the object {} *)
EmptyCounts == [key \in {} |-> 0]

(* counts[key] ?? 0 on a Record<string, number> *)
countAt(counts, key) == IF key \in DOMAIN counts THEN counts[key] ELSE 0

RECURSIVE sumCountsOver(_, _)
sumCountsOver(counts, keys) ==
  IF keys = {} THEN 0
  ELSE LET key == CHOOSE k \in keys : TRUE
       IN  counts[key] + sumCountsOver(counts, keys \ {key})

sumCounts(counts) == sumCountsOver(counts, DOMAIN counts)

(* mutant: no clamping at all *)
clampNone(value, min, max) == value

clamp(value, min, max) == RatMin(max, RatMax(min, value))

clamp01Scoring(value) == clamp(value, <<0, 1>>, <<1, 1>>)

percentOf(count, total) ==
  IF total <= 0 THEN <<0, 1>> ELSE <<count * 100, total>>

ratio(count, total) ==
  IF total <= 0 THEN <<0, 1>> ELSE <<count, total>>

calculateBaselineScore(baseline) ==
  IF baseline = <<>> \/ baseline[1].clusters_with_baseline <= 0
  THEN <<0, 1>>
  ELSE LET denominator == Max2(1, baseline[1].top_claim_clusters_count)
       IN  clamp(<<10 * baseline[1].clusters_with_baseline, denominator>>,
                 <<0, 1>>, <<10, 1>>)

(* mutant: the echo threshold compared strictly *)
buildIntegrityFlagsStrictEcho(input) ==
  LET lowVolume ==
        IF input.kept < 5 THEN <<"DEGRADED_SIGNAL_LOW_VOLUME">> ELSE <<>>
      lowTimestampTrust ==
        IF RatLe(<<20, 1>>, RatAdd(input.percentT3, input.percentT4))
        THEN <<"DEGRADED_SIGNAL_LOW_TIMESTAMP_TRUST">> ELSE <<>>
      highEchoRisk ==
        IF RatLt(<<3, 5>>, input.medianEchoRisk)
        THEN <<"DEGRADED_SIGNAL_HIGH_ECHO_RISK">> ELSE <<>>
      lowEvidence ==
        IF RatEq(input.multiRatio, <<0, 1>>) /\ RatEq(input.implementationRatio, <<0, 1>>)
        THEN <<"DEGRADED_SIGNAL_LOW_EVIDENCE">> ELSE <<>>
      present(entry) == includes(input.existingFlags, entry[1])
      failed == SelectSeq(SOURCE_FAILURE_FLAGS, present)
  IN  lowVolume \o lowTimestampTrust \o highEchoRisk \o lowEvidence
        \o [i \in 1..Len(failed) |-> failed[i][2]]

(* mutant: one SOURCE_FAILURE flag per occurrence of a failure flag, in the
   order of the flags passed in *)
buildIntegrityFlagsPerOccurrence(input) ==
  LET lowVolume ==
        IF input.kept < 5 THEN <<"DEGRADED_SIGNAL_LOW_VOLUME">> ELSE <<>>
      lowTimestampTrust ==
        IF RatLe(<<20, 1>>, RatAdd(input.percentT3, input.percentT4))
        THEN <<"DEGRADED_SIGNAL_LOW_TIMESTAMP_TRUST">> ELSE <<>>
      highEchoRisk ==
        IF RatLe(<<3, 5>>, input.medianEchoRisk)
        THEN <<"DEGRADED_SIGNAL_HIGH_ECHO_RISK">> ELSE <<>>
      lowEvidence ==
        IF RatEq(input.multiRatio, <<0, 1>>) /\ RatEq(input.implementationRatio, <<0, 1>>)
        THEN <<"DEGRADED_SIGNAL_LOW_EVIDENCE">> ELSE <<>>
      isFailure(flag) == \E i \in 1..Len(SOURCE_FAILURE_FLAGS) : SOURCE_FAILURE_FLAGS[i][1] = flag
      mapped(flag) ==
        SOURCE_FAILURE_FLAGS[CHOOSE i \in 1..Len(SOURCE_FAILURE_FLAGS) :
                               SOURCE_FAILURE_FLAGS[i][1] = flag][2]
      failed == SelectSeq(input.existingFlags, isFailure)
  IN  lowVolume \o lowTimestampTrust \o highEchoRisk \o lowEvidence
        \o [i \in 1..Len(failed) |-> mapped(failed[i])]

(* the Set of flags in insertion order *)
buildIntegrityFlags(input) ==
  LET lowVolume ==
        IF input.kept < 5 THEN <<"DEGRADED_SIGNAL_LOW_VOLUME">> ELSE <<>>
      lowTimestampTrust ==
        IF RatLe(<<20, 1>>, RatAdd(input.percentT3, input.percentT4))
        THEN <<"DEGRADED_SIGNAL_LOW_TIMESTAMP_TRUST">> ELSE <<>>
      highEchoRisk ==
        IF RatLe(<<3, 5>>, input.medianEchoRisk)
        THEN <<"DEGRADED_SIGNAL_HIGH_ECHO_RISK">> ELSE <<>>
      lowEvidence ==
        IF RatEq(input.multiRatio, <<0, 1>>) /\ RatEq(input.implementationRatio, <<0, 1>>)
        THEN <<"DEGRADED_SIGNAL_LOW_EVIDENCE">> ELSE <<>>
      present(entry) == includes(input.existingFlags, entry[1])
      failed == SelectSeq(SOURCE_FAILURE_FLAGS, present)
  IN  lowVolume \o lowTimestampTrust \o highEchoRisk \o lowEvidence
        \o [i \in 1..Len(failed) |-> failed[i][2]]

(* an optional field is <<>> when absent and <<value>> when given *)
calculateIntegrityScore(input) ==
  LET totalTimestamped == sumCounts(input.timestamp_tier_counts)
      percentT3 == percentOf(countAt(input.timestamp_tier_counts, "T3"), totalTimestamped)
      percentT4 == percentOf(countAt(input.timestamp_tier_counts, "T4"), totalTimestamped)
      timestamp ==
        clamp(<<30 - 2 * MathRound(percentT3) - 5 * MathRound(percentT4), 1>>,
              <<0, 1>>, <<30, 1>>)
      present(entry) == includes(input.flags, entry[1])
      failureFlagsCount == Len(SelectSeq(SOURCE_FAILURE_FLAGS, present))
      sourcesPenalty ==
        Min2(20, failureFlagsCount * 10) + (IF input.kept < 5 THEN 5 ELSE 0)
      sources == clamp(<<25 - sourcesPenalty, 1>>, <<0, 1>>, <<25, 1>>)
      medianEchoRisk ==
        clamp01Scoring(IF input.echo_risk_stats = <<>> THEN <<0, 1>>
                       ELSE input.echo_risk_stats[1].median)
      independence ==
        clamp(RatMul(<<20, 1>>, RatSub(<<1, 1>>, medianEchoRisk)), <<0, 1>>, <<20, 1>>)
      evidenceCounts ==
        IF input.evidence_grade_counts = <<>> THEN EmptyCounts
        ELSE input.evidence_grade_counts[1]
      evidenceTotal == sumCounts(evidenceCounts)
      multiConfirmed == countAt(evidenceCounts, "multi-confirmed")
      implementationConfirmed == countAt(evidenceCounts, "implementation-confirmed")
      multiRatio == ratio(multiConfirmed, evidenceTotal)
      implementationRatio == ratio(implementationConfirmed, evidenceTotal)
      evidence ==
        clamp(RatAdd(<<5, 1>>,
                RatAdd(RatMin(<<10, 1>>, RatMul(<<10, 1>>, multiRatio)),
                       RatMin(<<5, 1>>, RatMul(<<5, 1>>, implementationRatio)))),
              <<0, 1>>, <<15, 1>>)
      baseline == calculateBaselineScore(input.baseline)
      integrityScore ==
        clamp(RatAdd(timestamp, RatAdd(sources, RatAdd(independence,
                RatAdd(evidence, baseline)))),
              <<0, 1>>, <<100, 1>>)
      flags == buildIntegrityFlags(
                 [kept |-> input.kept,
                  percentT3 |-> percentT3,
                  percentT4 |-> percentT4,
                  medianEchoRisk |-> medianEchoRisk,
                  multiRatio |-> multiRatio,
                  implementationRatio |-> implementationRatio,
                  existingFlags |-> input.flags])
  IN  [integrity_score |-> MathRound(integrityScore),
       flags |-> flags,
       components |->
         [timestamp |-> timestamp,
          sources |-> sources,
          independence |-> independence,
          evidence |-> evidence,
          baseline |-> baseline]]

-----------------------------------------------------------------------------
(* calculateIntegrityScore applied to one input *)

TierCountsOf(tier) == IF tier = "T1" THEN {0, 4, 9} ELSE 0..MaxTierCount

TierCountMaps ==
  UNION {{counts \in [tiers -> 0..9] : \A tier \in tiers : counts[tier] \in TierCountsOf(tier)}
           : tiers \in SUBSET {"T1", "T3", "T4"}}

KeptCounts == {0, 4, 5}

FlagLists ==
  {<<>>,
   <<"window_filtered", "REDDIT_FETCH_FAILED">>,
   <<"HN_FETCH_FAILED", "HN_FETCH_FAILED">>,
   <<"GITHUB_FETCH_FAILED", "REDDIT_FETCH_FAILED", "HN_FETCH_FAILED">>,
   <<"REDDIT_FETCH_FAILED", "window_filtered", "REDDIT_FETCH_FAILED">>,
   <<"HN_FETCH_FAILED">>}

EchoMedians == {<<-1, 2>>, <<0, 1>>, <<1, 2>>, <<3, 5>>, <<1, 1>>, <<3, 2>>}

EchoRiskStats == {<<>>} \cup {<<[median |-> median]>> : median \in EchoMedians}

EvidenceGradeCounts ==
  {<<>>,
   <<EmptyCounts>>,
   <<("discussion-only" :> 2)>>,
   <<("multi-confirmed" :> 1) @@ ("discussion-only" :> 1)>>,
   <<("implementation-confirmed" :> 1) @@ ("discussion-only" :> 2)>>,
   <<("multi-confirmed" :> 2) @@ ("implementation-confirmed" :> 1)>>}

Baselines ==
  {<<>>,
   <<[clusters_with_baseline |-> 0, top_claim_clusters_count |-> 3]>>,
   <<[clusters_with_baseline |-> 1, top_claim_clusters_count |-> 0]>>,
   <<[clusters_with_baseline |-> 1, top_claim_clusters_count |-> 3]>>,
   <<[clusters_with_baseline |-> 4, top_claim_clusters_count |-> 3]>>}

InitIntegrity ==
  /\ IdleCluster
  /\ IdleCalls
  /\ IdleRunId
  /\ IdleStore
  /\ IdleRun
  /\ \E counts \in TierCountMaps, flags \in FlagLists, kept \in KeptCounts,
        stats \in EchoRiskStats, grades \in EvidenceGradeCounts,
        baseline \in Baselines :
       integrityInput =
         <<[timestamp_tier_counts |-> counts,
            flags |-> flags,
            kept |-> kept,
            echo_risk_stats |-> stats,
            evidence_grade_counts |-> grades,
            baseline |-> baseline]>>
  /\ integrityResult = <<>>

CalculateIntegrityScore ==
  /\ integrityInput # <<>>
  /\ integrityResult = <<>>
  /\ integrityResult' = <<calculateIntegrityScore(integrityInput[1])>>
  /\ UNCHANGED <<integrityInput, clusterVars, runIdVars, storeVars, runVars>>
  /\ UNCHANGED callVars

NextIntegrity == CalculateIntegrityScore

SpecIntegrity == InitIntegrity /\ [][NextIntegrity]_vars

(* C6. Integrity clamping: whatever the input, timestamp is in [0,30],
   sources in [0,25], independence in [0,20], evidence in [0,15], baseline
   in [0,10], and integrity_score is an integer in [0,100]. *)
C6_IntegrityClamping ==
  integrityResult # <<>> =>
    LET result == integrityResult[1]
        within(value, max) == RatLe(<<0, 1>>, value) /\ RatLe(value, <<max, 1>>)
    IN  /\ within(result.components.timestamp, 30)
        /\ within(result.components.sources, 25)
        /\ within(result.components.independence, 20)
        /\ within(result.components.evidence, 15)
        /\ within(result.components.baseline, 10)
        /\ result.integrity_score \in 0..100

(* every tier-4 record, no record kept, all sources failed, echo risk beyond 1,
   more anchored clusters than top clusters *)
C6_Witness ==
  /\ integrityResult # <<>>
  /\ LET input == integrityInput[1]
     IN  /\ DOMAIN input.timestamp_tier_counts = {"T4"}
         /\ input.timestamp_tier_counts["T4"] > 0
         /\ input.kept = 0
         /\ Len(input.flags) = 3
         /\ input.echo_risk_stats # <<>>
         /\ RatLt(<<1, 1>>, input.echo_risk_stats[1].median)
         /\ input.baseline # <<>>
         /\ input.baseline[1].clusters_with_baseline > input.baseline[1].top_claim_clusters_count
         /\ input.baseline[1].top_claim_clusters_count > 0
  /\ integrityResult[1].components.timestamp = <<0, 1>>
  /\ integrityResult[1].components.baseline = <<10, 1>>

(* C7. Degradation flags: LOW_VOLUME exactly when kept < 5,
   LOW_TIMESTAMP_TRUST exactly when the T3 and T4 records are at least 20
   percent of the timestamped ones, HIGH_ECHO_RISK exactly when the median
   echo risk (clamped to [0,1]) is at least 0.6, and then independence is at
   most 8, LOW_EVIDENCE exactly when no cluster is multi-confirmed or
   implementation-confirmed by ratio. *)
C7_DegradationFlags ==
  integrityResult # <<>> =>
    LET input == integrityInput[1]
        result == integrityResult[1]
        has(flag) == \E i \in 1..Len(result.flags) : result.flags[i] = flag
        counts == input.timestamp_tier_counts
        at(map, key) == IF key \in DOMAIN map THEN map[key] ELSE 0
        total == at(counts, "T1") + at(counts, "T3") + at(counts, "T4")
        late == at(counts, "T3") + at(counts, "T4")
        median == IF input.echo_risk_stats = <<>> THEN <<0, 1>>
                  ELSE input.echo_risk_stats[1].median
        grades == IF input.evidence_grade_counts = <<>> THEN EmptyCounts
                  ELSE input.evidence_grade_counts[1]
    IN  /\ has("DEGRADED_SIGNAL_LOW_VOLUME") <=> input.kept < 5
        /\ has("DEGRADED_SIGNAL_LOW_TIMESTAMP_TRUST") <=>
             (total > 0 /\ late * 100 >= 20 * total)
        /\ has("DEGRADED_SIGNAL_HIGH_ECHO_RISK") <=> 5 * median[1] >= 3 * median[2]
        /\ has("DEGRADED_SIGNAL_HIGH_ECHO_RISK") =>
             RatLe(result.components.independence, <<8, 1>>)
        /\ has("DEGRADED_SIGNAL_LOW_EVIDENCE") <=>
             (at(grades, "multi-confirmed") = 0
                /\ at(grades, "implementation-confirmed") = 0)

(* the echo median exactly at the threshold and the late share exactly 20% *)
C7_Witness ==
  /\ integrityResult # <<>>
  /\ integrityInput[1].echo_risk_stats = <<[median |-> <<3, 5>>]>>
  /\ integrityInput[1].timestamp_tier_counts = [T1 |-> 4, T3 |-> 1, T4 |-> 0]
  /\ integrityInput[1].kept = 5
  /\ integrityResult[1].components.independence = <<40, 5>>
  /\ \E i \in 1..Len(integrityResult[1].flags) :
       integrityResult[1].flags[i] = "DEGRADED_SIGNAL_HIGH_ECHO_RISK"
  /\ \E i \in 1..Len(integrityResult[1].flags) :
       integrityResult[1].flags[i] = "DEGRADED_SIGNAL_LOW_TIMESTAMP_TRUST"

(* C16. Source-failure flags: the flags calculateIntegrityScore returns hold
   SOURCE_FAILURE_REDDIT, _HN, _GITHUB exactly for the collectors whose
   *_FETCH_FAILED flag was passed in, each once, no flag twice; and the
   returned flag set is the same for every input flag list with the same set
   of flags, whatever its order and multiplicity. *)
C16_SourceFailureFlags ==
  integrityResult # <<>> =>
    LET input == integrityInput[1]
        result == integrityResult[1]
        times(flag) == Cardinality({i \in 1..Len(result.flags) : result.flags[i] = flag})
    IN  /\ \A k \in 1..Len(SOURCE_FAILURE_FLAGS) :
             times(SOURCE_FAILURE_FLAGS[k][2]) =
               IF SOURCE_FAILURE_FLAGS[k][1] \in Range(input.flags) THEN 1 ELSE 0
        /\ \A flag \in Range(result.flags) : times(flag) = 1
        /\ \A other \in FlagLists :
             Range(other) = Range(input.flags) =>
               Range(calculateIntegrityScore([input EXCEPT !.flags = other]).flags)
                 = Range(result.flags)

(* HN_FETCH_FAILED passed twice gives one SOURCE_FAILURE_HN and nothing for
   reddit or github *)
C16_Witness ==
  /\ integrityResult # <<>>
  /\ integrityInput[1].flags = <<"HN_FETCH_FAILED", "HN_FETCH_FAILED">>
  /\ Cardinality({i \in 1..Len(integrityResult[1].flags) :
                    integrityResult[1].flags[i] = "SOURCE_FAILURE_HN"}) = 1
  /\ "SOURCE_FAILURE_REDDIT" \notin Range(integrityResult[1].flags)

-----------------------------------------------------------------------------
(* Run identifier.  A query is the sequence of its characters. *)

DEFAULT_WINDOW == 30

DEFAULT_TARGET == "gpt"

DEFAULT_TOP_N == 10

DEFAULT_ALLOW_T4 == TRUE

(* value ?? fallback, an optional value being <<>> or <<value>> *)
orDefault(value, fallback) == IF value = <<>> THEN fallback ELSE value[1]

(* String.prototype.toLowerCase on the characters of the model *)
lowerChar(ch) ==
  CASE ch = "F" -> "f"
    [] ch = "B" -> "b"
    [] OTHER -> ch

lowerCaseChars(value) == [i \in 1..Len(value) |-> lowerChar(value[i])]

(* \s on the characters of the model *)
isWhitespace(ch) == ch \in {" ", "\t"}

(* [a-z0-9] on the characters of the model *)
isSlugChar(ch) == ch \in {"a", "b", "f", "o", "r", "2"}

RECURSIVE trimStart(_)
trimStart(value) ==
  IF value # <<>> /\ isWhitespace(Head(value)) THEN trimStart(Tail(value)) ELSE value

RECURSIVE trimEnd(_)
trimEnd(value) ==
  IF value # <<>> /\ isWhitespace(value[Len(value)])
  THEN trimEnd(SubSeq(value, 1, Len(value) - 1))
  ELSE value

trim(value) == trimEnd(trimStart(value))

(* replace(/\s+/g, " ") *)
RECURSIVE collapseWhitespace(_)
collapseWhitespace(value) ==
  IF value = <<>> THEN <<>>
  ELSE IF isWhitespace(Head(value))
       THEN <<" ">> \o collapseWhitespace(trimStart(value))
       ELSE <<Head(value)>> \o collapseWhitespace(Tail(value))

RECURSIVE skipNonSlugChars(_)
skipNonSlugChars(value) ==
  IF value # <<>> /\ ~isSlugChar(Head(value)) THEN skipNonSlugChars(Tail(value)) ELSE value

(* replace(/[^a-z0-9]+/g, "-") *)
RECURSIVE dashNonSlugChars(_)
dashNonSlugChars(value) ==
  IF value = <<>> THEN <<>>
  ELSE IF isSlugChar(Head(value))
       THEN <<Head(value)>> \o dashNonSlugChars(Tail(value))
       ELSE <<"-">> \o dashNonSlugChars(skipNonSlugChars(value))

(* replace(/(^-|-$)+/g, "") *)
RECURSIVE stripEdgeDashes(_)
stripEdgeDashes(value) ==
  IF value # <<>> /\ Head(value) = "-" THEN stripEdgeDashes(Tail(value))
  ELSE IF value # <<>> /\ value[Len(value)] = "-"
       THEN stripEdgeDashes(SubSeq(value, 1, Len(value) - 1))
       ELSE value

slugify(value) ==
  LET stripped == stripEdgeDashes(dashNonSlugChars(lowerCaseChars(value)))
      sliced == SubSeq(stripped, 1, Min2(40, Len(stripped)))
  IN  IF sliced = <<>> THEN <<"r", "u", "n">> ELSE sliced

normalizeQuery(value) == collapseWhitespace(lowerCaseChars(trim(value)))

(* String.prototype.toLowerCase on the source names of the model *)
lowerCaseSource(source) ==
  CASE source = "HN" -> "hn"
    [] source = "Reddit" -> "reddit"
    [] OTHER -> source

(* the lower-cased source names of the model in code-unit order *)
SourceOrder == <<"constructor", "github_issue", "github_release", "hn", "reddit", "twitter", "web">>

sourceRank(source) == CHOOSE i \in 1..Len(SourceOrder) : SourceOrder[i] = source

RECURSIVE insertSource(_, _)
insertSource(sorted, source) ==
  IF sorted = <<>> THEN <<source>>
  ELSE IF sourceRank(source) < sourceRank(Head(sorted))
       THEN <<source>> \o sorted
       ELSE <<Head(sorted)>> \o insertSource(Tail(sorted), source)

(* Array.prototype.sort() on source names *)
RECURSIVE sortSources(_)
sortSources(sources) ==
  IF sources = <<>> THEN <<>>
  ELSE insertSource(sortSources(Tail(sources)), Head(sources))

(* mutant: the source list lower-cased but left in request order *)
buildRunIdUnsortedSources(options, runDate, sources, uuid) ==
  LET normalizedSources == [i \in 1..Len(sources) |-> lowerCaseSource(sources[i])]
      deterministic == orDefault(options.deterministic, TRUE)
      nonce == IF deterministic THEN <<>> ELSE <<"|", uuid>>
      payload ==
        [query |-> normalizeQuery(options.query),
         window_days |-> orDefault(options.window_days, DEFAULT_WINDOW),
         target |-> orDefault(options.target, DEFAULT_TARGET),
         mode |-> orDefault(options.mode, "quick"),
         sources |-> normalizedSources,
         top_n |-> orDefault(options.top_n, DEFAULT_TOP_N),
         run_date |-> runDate]
  IN  [run_date |-> runDate,
       slug |-> slugify(options.query),
       hash |-> <<"sha256", payload, nonce>>]

(* uuid is the value crypto.randomUUID() returns if it is called; the run id
   `${runDate}-${slug}-${hash}` is kept as its three parts *)
buildRunId(options, runDate, sources, uuid) ==
  LET normalizedSources ==
        sortSources([i \in 1..Len(sources) |-> lowerCaseSource(sources[i])])
      deterministic == orDefault(options.deterministic, TRUE)
      nonce == IF deterministic THEN <<>> ELSE <<"|", uuid>>
      payload ==
        [query |-> normalizeQuery(options.query),
         window_days |-> orDefault(options.window_days, DEFAULT_WINDOW),
         target |-> orDefault(options.target, DEFAULT_TARGET),
         mode |-> orDefault(options.mode, "quick"),
         sources |-> normalizedSources,
         top_n |-> orDefault(options.top_n, DEFAULT_TOP_N),
         run_date |-> runDate]
  IN  [run_date |-> runDate,
       slug |-> slugify(options.query),
       hash |-> <<"sha256", payload, nonce>>]

-----------------------------------------------------------------------------
(* buildRunId called request after request; the state keeps the last two calls *)

QueryFooBar == <<"F", "o", "o", " ", "B", "a", "r">>

QuerySpaced == <<" ", "f", "o", "o", "\t", " ", "b", "a", "r", " ">>

QueryDashed == <<"f", "o", "o", "-", "b", "a", "r">>

QueryBang == <<"!", "-">>

(* 41 characters: one more than a slug keeps *)
QueryLong == [i \in 1..41 |-> IF i = 41 THEN "2" ELSE "a"]

Queries == {QueryFooBar, QuerySpaced, QueryDashed, QueryBang, QueryLong}

ProfileUnset ==
  [window_days |-> <<>>, target |-> <<>>, mode |-> <<>>, top_n |-> <<>>]

ProfileDefaults ==
  [window_days |-> <<30>>, target |-> <<"gpt">>, mode |-> <<"quick">>, top_n |-> <<10>>]

ProfileDeep ==
  [window_days |-> <<7>>, target |-> <<"codex">>, mode |-> <<"deep">>, top_n |-> <<5>>]

RunVariant(profile, deterministic, sources, runDate) ==
  [profile |-> profile, deterministic |-> deterministic, sources |-> sources,
   run_date |-> runDate]

(* the rest of a request: defaults left out or spelled out, another window,
   target, mode and top-N, the source list reordered, re-cased, changed,
   another run date, and the nonce asked for *)
RunVariants ==
  {RunVariant(ProfileUnset, <<>>, <<"reddit", "hn">>, "2024-02-10"),
   RunVariant(ProfileDefaults, <<TRUE>>, <<"HN", "Reddit">>, "2024-02-10"),
   RunVariant(ProfileUnset, <<TRUE>>, <<"hn", "reddit">>, "2024-02-10"),
   RunVariant(ProfileDeep, <<>>, <<"reddit", "hn">>, "2024-02-10"),
   RunVariant(ProfileUnset, <<>>, <<"hn", "web", "hn">>, "2024-02-10"),
   RunVariant(ProfileUnset, <<>>, <<"reddit", "hn">>, "2024-02-11"),
   RunVariant(ProfileUnset, <<FALSE>>, <<"reddit", "hn">>, "2024-02-10"),
   RunVariant(ProfileDefaults, <<FALSE>>, <<"HN", "Reddit">>, "2024-02-10")}

RunOptions(query, profile, deterministic) ==
  [query |-> query,
   window_days |-> profile.window_days,
   target |-> profile.target,
   mode |-> profile.mode,
   top_n |-> profile.top_n,
   deterministic |-> deterministic]

(* the last two elements of a log *)
lastTwo(log) == IF Len(log) <= 2 THEN log ELSE Tail(log)

InitRunId ==
  /\ IdleCluster
  /\ IdleCalls
  /\ IdleIntegrity
  /\ IdleRunId
  /\ IdleStore
  /\ IdleRun

BuildRunId ==
  /\ \E query \in Queries, variant \in RunVariants :
       LET options == RunOptions(query, variant.profile, variant.deterministic)
           drawn == ~orDefault(variant.deterministic, TRUE)
       IN  /\ drawn => uuidsDrawn < MaxUuids
           /\ uuidsDrawn' = IF drawn THEN uuidsDrawn + 1 ELSE uuidsDrawn
           /\ requests' =
                lastTwo(Append(requests,
                  [options |-> options,
                   run_date |-> variant.run_date,
                   sources |-> variant.sources,
                   run_id |-> buildRunId(options, variant.run_date, variant.sources,
                                         uuidsDrawn + 1)]))
  /\ UNCHANGED <<clusterVars, integrityVars, storeVars, runVars>>
  /\ UNCHANGED callVars

NextRunId == BuildRunId

SpecRunId == InitRunId /\ [][NextRunId]_vars

(* the fields the run id is claimed to depend on *)
C10_NormalizedFields(request) ==
  [query |-> normalizeQuery(request.options.query),
   window_days |-> orDefault(request.options.window_days, 30),
   target |-> orDefault(request.options.target, "gpt"),
   mode |-> orDefault(request.options.mode, "quick"),
   sources |->
     [source \in {lowerCaseSource(request.sources[i]) : i \in 1..Len(request.sources)}
        |-> Cardinality({i \in 1..Len(request.sources) :
                           lowerCaseSource(request.sources[i]) = source})],
   top_n |-> orDefault(request.options.top_n, 10),
   run_date |-> request.run_date]

(* C10. Run identifier determinism: with deterministic mode on (the default)
   two requests equal in normalized query, window, target, mode, lower-cased
   source list up to order, top-N and run date get the same run id; with
   deterministic = false two requests get different run ids, even identical
   ones. *)
C10_RunIdDeterminism ==
  \A i, j \in 1..Len(requests) :
    LET a == requests[i]
        b == requests[j]
        on(request) == orDefault(request.options.deterministic, TRUE)
    IN  /\ (on(a) /\ on(b) /\ C10_NormalizedFields(a) = C10_NormalizedFields(b))
             => a.run_id = b.run_id
        /\ (i # j /\ ~on(a) /\ ~on(b)) => a.run_id # b.run_id

(* two requests that differ in spelling, source order and defaults share an
   id, after two identical requests with deterministic = false got two ids *)
C10_Witness ==
  /\ Len(requests) = 2
  /\ uuidsDrawn = 2
  /\ requests[1].options.query # requests[2].options.query
  /\ requests[1].sources # requests[2].sources
  /\ requests[1].options.window_days = <<>>
  /\ requests[2].options.window_days = <<30>>
  /\ requests[1].options.deterministic = <<>>
  /\ requests[2].options.deterministic = <<TRUE>>
  /\ requests[1].run_id = requests[2].run_id

-----------------------------------------------------------------------------
(* Run store.  The snapshot holds two insertRun: the one of storage/db.ts
   and the one that follows the schema in storage/schema.sql. *)

(* SQL NULL, JavaScript null *)
Null == "\\null"

StorageBuilds == {"db.ts", "schema.sql"}

(* flags.join(","): flag names hold no comma, the list stands for the text *)
runRow(run) ==
  [id |-> run.id,
   query |-> run.query,
   window_days |-> run.window_days,
   target |-> run.target,
   mode |-> run.mode,
   created_at |-> run.created_at,
   integrity_score |-> run.integrity_score,
   flags |-> run.flags]

(* the eight columns db.ts binds *)
itemRowLegacy(item) ==
  [run_id |-> item.run_id,
   title |-> item.title,
   url |-> item.url,
   snippet |-> item.snippet,
   published_at |-> item.published_at,
   source |-> item.source,
   cluster_id |-> item.cluster_id,
   timestamp_tier |-> item.timestamp_tier]

(* item.field of a record that may lack the field *)
fieldOrNull(item, field) == IF field \in DOMAIN item THEN item[field] ELSE Null

(* a number column that is NULL: a number n is <<n>> where NULL can occur *)
NullNumber == <<>>

(* the twelve columns the later insertRun binds *)
itemRow(item) ==
  itemRowLegacy(item) @@
  [idea_cluster_id |-> fieldOrNull(item, "idea_cluster_id"),
   evidence_grade |-> fieldOrNull(item, "evidence_grade"),
   origin_count |-> fieldOrNull(item, "origin_count"),
   engagement |-> IF "engagement" \in DOMAIN item THEN item.engagement ELSE NullNumber]

(* a title or snippet that is null: texts are word sequences *)
NullText == <<Null>>

(* NOT NULL on the columns of table items whose value the collectors supply *)
itemRowRejected(item) ==
  \/ item.title = NullText
  \/ item.snippet = NullText
  \/ item.url = Null
  \/ item.source = Null

(* PRIMARY KEY of table runs *)
runIdTaken(table, id) == \E row \in table : row.id = id

(* insertRun of storage/db.ts: the run INSERT, then the items in one
   transaction; a failed statement throws and leaves what was committed *)
insertRunLegacy(db, run, records) ==
  IF runIdTaken(db.runs, run.id)
  THEN [runs |-> db.runs, items |-> db.items, outcome |-> "threw at run"]
  ELSE IF \E i \in 1..Len(records) : itemRowRejected(records[i])
       THEN [runs |-> db.runs \cup {runRow(run)}, items |-> db.items,
             outcome |-> "threw at items"]
       ELSE [runs |-> db.runs \cup {runRow(run)},
             items |-> db.items \o [i \in 1..Len(records) |-> itemRowLegacy(records[i])],
             outcome |-> "inserted"]

(* insertRun of storage/schema.sql: the same behind an existence check *)
insertRun(db, run, records) ==
  IF runIdTaken(db.runs, run.id)
  THEN [runs |-> db.runs, items |-> db.items, outcome |-> "returned early"]
  ELSE IF \E i \in 1..Len(records) : itemRowRejected(records[i])
       THEN [runs |-> db.runs \cup {runRow(run)}, items |-> db.items,
             outcome |-> "threw at items"]
       ELSE [runs |-> db.runs \cup {runRow(run)},
             items |-> db.items \o [i \in 1..Len(records) |-> itemRow(records[i])],
             outcome |-> "inserted"]

(* the insertRun the build links *)
insertRunOf(build, db, run, records) ==
  IF build = "db.ts" THEN insertRunLegacy(db, run, records)
  ELSE insertRun(db, run, records)

-----------------------------------------------------------------------------
(* insertRun called with run records and item lists *)

StoreRunIds == {"run-a", "run-b"}

StoreScores == {40, 95}

StoreRun(id, score) ==
  [id |-> id,
   query |-> "signalforge",
   window_days |-> DEFAULT_WINDOW,
   target |-> DEFAULT_TARGET,
   mode |-> "quick",
   created_at |-> RecentIso,
   integrity_score |-> score,
   flags |-> IF score = 40 THEN <<"window_filtered">> ELSE <<>>]

StoreItem(id, title) ==
  [run_id |-> id,
   title |-> title,
   url |-> "https://a.example/1",
   snippet |-> <<"snippet">>,
   published_at |-> Null,
   source |-> "hn",
   cluster_id |-> hashValue("https://a.example/1"),
   idea_cluster_id |-> hashValue(<<"misc">>),
   evidence_grade |-> "discussion-only",
   origin_count |-> 1,
   engagement |-> NullNumber,
   timestamp_tier |-> "T4"]

(* no item, one item, two items, an item followed by one without a title *)
StoreItemLists(id) ==
  {<<>>,
   <<StoreItem(id, <<"first">>)>>,
   <<StoreItem(id, <<"first">>), StoreItem(id, <<"second">>)>>,
   <<StoreItem(id, <<"first">>), StoreItem(id, NullText)>>}

InitStore ==
  /\ IdleCluster
  /\ IdleCalls
  /\ IdleIntegrity
  /\ IdleRunId
  /\ IdleRun
  /\ storage \in StorageBuilds
  /\ runsTable = {}
  /\ itemsTable = <<>>
  /\ insertCalls = <<>>

InsertRun ==
  /\ Len(insertCalls) < MaxInserts
  /\ \E id \in StoreRunIds, score \in StoreScores :
       \E records \in StoreItemLists(id) :
         LET run == StoreRun(id, score)
             before == [runs |-> runsTable, items |-> itemsTable]
             after == insertRunOf(storage, before, run, records)
         IN  /\ runsTable' = after.runs
             /\ itemsTable' = after.items
             /\ insertCalls' =
                  Append(insertCalls,
                    [run |-> run, records |-> records, before |-> before,
                     outcome |-> after.outcome])
  /\ UNCHANGED <<storage, clusterVars, integrityVars, runIdVars, runVars>>
  /\ UNCHANGED callVars

NextStore == InsertRun

SpecStore == InitStore /\ [][NextStore]_vars

(* the item rows stored under a run id, in rowid order *)
C9_ItemsOf(id) ==
  LET ofRun(row) == row.run_id = id
  IN  SelectSeq(itemsTable, ofRun)

(* C9 as claimed: an insertRun call for a run id already recorded raises no
   error and leaves both tables as they were; there is one run row per run
   id, the one of the first call, and its items are the ones the first call
   stored. *)
C9_InsertRunIdempotent ==
  /\ \A k \in 1..Len(insertCalls) :
       LET call == insertCalls[k]
           isFirst == \A j \in 1..(k - 1) : insertCalls[j].run.id # call.run.id
           rows == [i \in 1..Len(call.records) |->
                      IF storage = "db.ts" THEN itemRowLegacy(call.records[i])
                      ELSE itemRow(call.records[i])]
       IN  /\ ~isFirst => call.outcome \notin {"threw at run", "threw at items"}
           /\ isFirst => C9_ItemsOf(call.run.id) \in {<<>>, rows}
  /\ \A k \in 1..Len(insertCalls) :
       LET call == insertCalls[k]
           after == IF k < Len(insertCalls) THEN insertCalls[k + 1].before
                    ELSE [runs |-> runsTable, items |-> itemsTable]
       IN  runIdTaken(call.before.runs, call.run.id) => after = call.before
  /\ \A row \in runsTable, other \in runsTable : row.id = other.id => row = other

-----------------------------------------------------------------------------
(* Timestamps *)

NowIso == "2024-02-10T12:00:00.000Z"

MidIso == "2024-01-31T12:00:00.000Z"

OldIso == "2023-12-01T12:00:00.000Z"

(* exactly thirty days before now, and one hour more *)
EdgeIso == "2024-01-11T12:00:00.000Z"

PastEdgeIso == "2024-01-11T11:00:00.000Z"

FutureIso == "2024-02-11T12:00:00.000Z"

(* the ISO texts of the model, each as its fields <<year, month, day, hour>>;
   minutes and below are zero throughout *)
IsoFields ==
  (NowIso :> <<2024, 2, 10, 12>>) @@ (RecentIso :> <<2024, 2, 8, 12>>)
    @@ (MidIso :> <<2024, 1, 31, 12>>) @@ (OldIso :> <<2023, 12, 1, 12>>)
    @@ (EdgeIso :> <<2024, 1, 11, 12>>) @@ (PastEdgeIso :> <<2024, 1, 11, 11>>)
    @@ (FutureIso :> <<2024, 2, 11, 12>>)
    @@ ("2024-02-10T00:00:00.000Z" :> <<2024, 2, 10, 0>>)
    @@ ("2024-02-03T00:00:00.000Z" :> <<2024, 2, 3, 0>>)
    @@ ("2024-01-11T00:00:00.000Z" :> <<2024, 1, 11, 0>>)
    @@ ("2023-08-14T00:00:00.000Z" :> <<2023, 8, 14, 0>>)
    @@ ("2023-08-13T12:00:00.000Z" :> <<2023, 8, 13, 12>>)
    @@ ("2024-02-02T12:00:00.000Z" :> <<2024, 2, 2, 12>>)
    @@ ("2023-06-01T12:00:00.000Z" :> <<2023, 6, 1, 12>>)
    @@ ("2024-01-25T00:00:00.000Z" :> <<2024, 1, 25, 0>>)
    @@ ("2024-01-02T00:00:00.000Z" :> <<2024, 1, 2, 0>>)
    @@ ("2023-08-05T00:00:00.000Z" :> <<2023, 8, 5, 0>>)
    @@ ("2024-02-13T00:00:00.000Z" :> <<2024, 2, 13, 0>>)
    @@ ("2024-01-21T00:00:00.000Z" :> <<2024, 1, 21, 0>>)
    @@ ("2023-08-24T00:00:00.000Z" :> <<2023, 8, 24, 0>>)

isLeapYear(year) == year % 4 = 0 /\ (year % 100 # 0 \/ year % 400 = 0)

daysInMonth(year, month) ==
  IF month = 2 THEN (IF isLeapYear(year) THEN 29 ELSE 28)
  ELSE IF month \in {4, 6, 9, 11} THEN 30 ELSE 31

RECURSIVE daysBeforeMonth(_, _)
daysBeforeMonth(year, month) ==
  IF month = 1 THEN 0
  ELSE daysBeforeMonth(year, month - 1) + daysInMonth(year, month - 1)

RECURSIVE daysBeforeYear(_)
daysBeforeYear(year) ==
  IF year <= 2023 THEN 0
  ELSE daysBeforeYear(year - 1) + (IF isLeapYear(year - 1) THEN 366 ELSE 365)

(* Date.parse: <<hours since 2023-01-01T00:00Z>>, <<>> for NaN *)
dateParse(text) ==
  IF text \notin DOMAIN IsoFields THEN <<>>
  ELSE LET f == IsoFields[text]
       IN  <<(daysBeforeYear(f[1]) + daysBeforeMonth(f[1], f[2]) + f[3] - 1) * 24 + f[4]>>

(* Date.now() *)
dateNow == dateParse(NowIso)[1]

(* !publishedAt *)
isMissing(publishedAt) == publishedAt = Null \/ publishedAt = ""

(* mutant: the NaN check left out *)
assignTimestampTierNoNaNCheck(publishedAt) ==
  IF isMissing(publishedAt) THEN [tier |-> "T4", isValid |-> FALSE]
  ELSE [tier |-> "T1", isValid |-> TRUE]

assignTimestampTier(publishedAt) ==
  IF isMissing(publishedAt) THEN [tier |-> "T4", isValid |-> FALSE]
  ELSE IF dateParse(publishedAt) = <<>> THEN [tier |-> "T4", isValid |-> FALSE]
  ELSE [tier |-> "T1", isValid |-> TRUE]

(* mutant: the age of a dated record is not compared with the window *)
isWithinWindowAnyAge(publishedAt, windowDays) ==
  IF isMissing(publishedAt) THEN TRUE
  ELSE dateParse(publishedAt) # <<>>

isWithinWindow(publishedAt, windowDays) ==
  IF isMissing(publishedAt) THEN TRUE
  ELSE IF dateParse(publishedAt) = <<>> THEN FALSE
  ELSE dateNow - dateParse(publishedAt)[1] <= windowDays * 24

-----------------------------------------------------------------------------
(* assignTimestampTier and isWithinWindow called on timestamps of every kind *)

MaxTimestampCalls == 2

PublishedAtValues ==
  {Null, "", "not a date", "yesterday", NowIso, RecentIso, MidIso, OldIso,
   EdgeIso, PastEdgeIso, FutureIso}

WindowDayValues == {0, 7, 30}

InitTimestamp ==
  /\ IdleCluster
  /\ IdleIntegrity
  /\ IdleRunId
  /\ IdleStore
  /\ IdleRun
  /\ IdleCalls

AssignTimestampTier ==
  /\ Len(timestampCalls) < MaxTimestampCalls
  /\ \E publishedAt \in PublishedAtValues :
       timestampCalls' =
         Append(timestampCalls,
           [op |-> "assignTimestampTier", published_at |-> publishedAt,
            window_days |-> 0, result |-> assignTimestampTier(publishedAt).tier])
  /\ UNCHANGED <<policyCalls, collectCalls, baselineCalls, routeCalls, anchorCalls, t4Calls, fetchRun>>
  /\ UNCHANGED <<clusterVars, integrityVars, runIdVars, storeVars, runVars>>

IsWithinWindow ==
  /\ Len(timestampCalls) < MaxTimestampCalls
  /\ \E publishedAt \in PublishedAtValues, windowDays \in WindowDayValues :
       timestampCalls' =
         Append(timestampCalls,
           [op |-> "isWithinWindow", published_at |-> publishedAt,
            window_days |-> windowDays,
            result |-> isWithinWindow(publishedAt, windowDays)])
  /\ UNCHANGED <<policyCalls, collectCalls, baselineCalls, routeCalls, anchorCalls, t4Calls, fetchRun>>
  /\ UNCHANGED <<clusterVars, integrityVars, runIdVars, storeVars, runVars>>

NextTimestamp == AssignTimestampTier \/ IsWithinWindow

SpecTimestamp == InitTimestamp /\ [][NextTimestamp]_vars

(* C11. Timestamp classification: assignTimestampTier answers T4 for a
   published_at that is null or that Date.parse cannot parse, T1 for every
   other value; every call returns a tier, and two calls on the same
   published_at return the same tier. *)
C11_TimestampClassification ==
  \A k \in 1..Len(timestampCalls) :
    LET call == timestampCalls[k]
    IN  call.op = "assignTimestampTier" =>
          /\ call.result \in {"T1", "T4"}
          /\ call.result = "T4" <=>
               (call.published_at = Null \/ dateParse(call.published_at) = <<>>)
          /\ \A j \in 1..Len(timestampCalls) :
               (timestampCalls[j].op = "assignTimestampTier"
                  /\ timestampCalls[j].published_at = call.published_at)
                 => timestampCalls[j].result = call.result

(* an unparseable text, the empty text and a date have been classified *)
C11_Witness ==
  /\ Len(timestampCalls) = 2
  /\ timestampCalls[1].op = "assignTimestampTier"
  /\ timestampCalls[1].published_at = "not a date"
  /\ timestampCalls[1].result = "T4"
  /\ timestampCalls[2].op = "assignTimestampTier"
  /\ timestampCalls[2].published_at = OldIso
  /\ timestampCalls[2].result = "T1"

(* C12 as claimed. Window filter: isWithinWindow answers true exactly when
   published_at is null, or parses and lies at most window_days before now;
   every non-null published_at that does not parse, the empty text included,
   fails the filter. *)
C12_WindowFilter ==
  \A k \in 1..Len(timestampCalls) :
    LET call == timestampCalls[k]
        parsed == dateParse(call.published_at)
    IN  call.op = "isWithinWindow" =>
          (call.result <=>
             (\/ call.published_at = Null
              \/ /\ parsed # <<>>
                 /\ dateNow - parsed[1] <= call.window_days * 24))

-----------------------------------------------------------------------------
(* Baseline anchors: fetchBaselineItems of the store in storage/schema.sql *)

BASELINE_DEFAULT_LOOKBACK_DAYS == 180

(* the run dates of the model, each as its fields <<year, month, day>> *)
RunDateFields ==
  ("2024-02-10" :> <<2024, 2, 10>>) @@ ("2024-02-20" :> <<2024, 2, 20>>)
    @@ ("2024-02-01" :> <<2024, 2, 1>>)

(* new Date(`${runDate}T00:00:00Z`).getTime(), in hours *)
runDateUtc(runDate) ==
  LET f == RunDateFields[runDate]
  IN  (daysBeforeYear(f[1]) + daysBeforeMonth(f[1], f[2]) + f[3] - 1) * 24

(* Date.prototype.toISOString: the ISO text of an instant *)
toISOString(instant) == CHOOSE text \in DOMAIN IsoFields : dateParse(text) = <<instant>>

(* the order of two ISO texts as strings: field by field, left to right *)
isoTextCompare(a, b) ==
  LET fa == IsoFields[a]
      fb == IsoFields[b]
      differ == {i \in 1..4 : fa[i] # fb[i]}
      first == CHOOSE i \in differ : \A j \in differ : i <= j
  IN  IF differ = {} THEN 0 ELSE IF fa[first] < fb[first] THEN -1 ELSE 1

buildBaselineCutoffs(runDate, windowDays, lookbackDays) ==
  [baselineCutoff |-> toISOString(runDateUtc(runDate) - windowDays * 24),
   lookbackCutoff |-> toISOString(runDateUtc(runDate) - lookbackDays * 24)]

BaselineTitles == <<"alpha", "beta", "gamma", "Quantum", "SignalForge">>

(* String.prototype.localeCompare on the titles of the model *)
titleCompare(a, b) ==
  LET rank(title) == CHOOSE i \in 1..Len(BaselineTitles) : BaselineTitles[i] = title[1]
  IN  IF rank(a) < rank(b) THEN -1 ELSE IF rank(a) > rank(b) THEN 1 ELSE 0

gradeOrder(grade) ==
  CASE grade = "discussion-only" -> 1
    [] grade = "implementation-confirmed" -> 2
    [] grade = "multi-confirmed" -> 3
    [] OTHER -> 0

(* engagement decides only when both rows have one; otherwise published_at
   is compared next *)
compareBaselineItems(a, b) ==
  IF gradeOrder(b.evidence_grade) - gradeOrder(a.evidence_grade) # 0
  THEN gradeOrder(b.evidence_grade) - gradeOrder(a.evidence_grade)
  ELSE IF b.origin_count # a.origin_count THEN b.origin_count - a.origin_count
  ELSE IF a.engagement # NullNumber /\ b.engagement # NullNumber
            /\ b.engagement # a.engagement
  THEN b.engagement[1] - a.engagement[1]
  ELSE IF a.published_at # b.published_at
  THEN isoTextCompare(b.published_at, a.published_at)
  ELSE titleCompare(a.title, b.title)

(* every arrangement of the positions of a list *)
RECURSIVE arrangements(_)
arrangements(positions) ==
  IF positions = {} THEN {<<>>}
  ELSE UNION {{<<i>> \o rest : rest \in arrangements(positions \ {i})} : i \in positions}

(* ORDER BY items.published_at DESC: the arrangements of the rows in which no
   row comes before a row published later *)
orderByPublishedDesc(rows) ==
  {[i \in 1..Len(rows) |-> rows[order[i]]] :
     order \in {o \in arrangements(1..Len(rows)) :
                  \A i \in 1..(Len(rows) - 1) :
                    isoTextCompare(rows[o[i + 1]].published_at, rows[o[i]].published_at) <= 0}}

(* a SELECT that also takes the rows published exactly at the cutoff *)
baselineRowsUpToCutoff(db, ideaClusterId, cutoffs) ==
  LET selected(item) ==
        /\ item.idea_cluster_id = ideaClusterId
        /\ item.published_at # Null
        /\ isoTextCompare(item.published_at, cutoffs.baselineCutoff) <= 0
        /\ \E run \in db.runs :
             /\ run.id = item.run_id
             /\ isoTextCompare(run.created_at, cutoffs.lookbackCutoff) >= 0
      rows == SelectSeq(db.items, selected)
      columns == [i \in 1..Len(rows) |->
                    [title |-> rows[i].title,
                     url |-> rows[i].url,
                     published_at |-> rows[i].published_at,
                     source |-> rows[i].source,
                     evidence_grade |-> rows[i].evidence_grade,
                     origin_count |-> rows[i].origin_count,
                     engagement |-> rows[i].engagement]]
  IN  orderByPublishedDesc(columns)

(* the row lists the SELECT can return: items joined with their run, filtered
   by WHERE, ORDER BY published_at DESC (rows of one published_at come in
   either order) *)
baselineRows(db, ideaClusterId, cutoffs) ==
  LET selected(item) ==
        /\ item.idea_cluster_id = ideaClusterId
        /\ item.published_at # Null
        /\ isoTextCompare(item.published_at, cutoffs.baselineCutoff) < 0
        /\ \E run \in db.runs :
             /\ run.id = item.run_id
             /\ isoTextCompare(run.created_at, cutoffs.lookbackCutoff) >= 0
      rows == SelectSeq(db.items, selected)
      columns == [i \in 1..Len(rows) |->
                    [title |-> rows[i].title,
                     url |-> rows[i].url,
                     published_at |-> rows[i].published_at,
                     source |-> rows[i].source,
                     evidence_grade |-> rows[i].evidence_grade,
                     origin_count |-> rows[i].origin_count,
                     engagement |-> rows[i].engagement]]
  IN  orderByPublishedDesc(columns)

sign(n) == IF n < 0 THEN -1 ELSE IF n > 0 THEN 1 ELSE 0

(* compareBaselineItems is a comparator Array.prototype.sort can rely on for
   these rows: it orders them the same way whichever pair it is asked about *)
isConsistentComparator(rows) ==
  LET R == Range(rows)
      compare(x, y) == compareBaselineItems(x, y)
  IN  /\ \A x, y \in R : sign(compare(x, y)) = -sign(compare(y, x))
      /\ \A x, y, z \in R :
           /\ (compare(x, y) = 0 /\ compare(y, z) = 0) => compare(x, z) = 0
           /\ (compare(x, y) < 0 /\ compare(y, z) < 0) => compare(x, z) < 0
           /\ (compare(x, y) > 0 /\ compare(y, z) > 0) => compare(x, z) > 0

(* rows.sort(compareBaselineItems): the sorted arrangement when the comparator
   is consistent on the rows (rows that compare equal are alike in every
   compared column); with an inconsistent comparator the order is left to the
   engine, and every arrangement is an outcome *)
baselineSortOutcomes(rows) ==
  IF isConsistentComparator(rows)
  THEN {[i \in 1..Len(rows) |-> rows[order[i]]] :
          order \in {o \in arrangements(1..Len(rows)) :
                       \A i \in 1..(Len(rows) - 1) :
                         compareBaselineItems(rows[o[i]], rows[o[i + 1]]) <= 0}}
  ELSE {[i \in 1..Len(rows) |-> rows[order[i]]] : order \in arrangements(1..Len(rows))}

(* the results fetchBaselineItems can return: lookbackDays is <<>> when the
   caller leaves it out *)
fetchBaselineItems(db, ideaClusterId, runDate, windowDays, lookbackDays) ==
  LET cutoffs ==
        buildBaselineCutoffs(runDate, windowDays,
          orDefault(lookbackDays, BASELINE_DEFAULT_LOOKBACK_DAYS))
  IN  UNION {{SubSeq(sorted, 1, Min2(2, Len(sorted))) : sorted \in baselineSortOutcomes(rows)} :
               rows \in baselineRows(db, ideaClusterId, cutoffs)}

-----------------------------------------------------------------------------
(* Earlier runs are stored, then baseline anchors are fetched *)

MaxBaselineRuns == 2

IdeaX == hashValue(<<"cli", "launch">>)

IdeaY == hashValue(<<"misc">>)

BaselineItem(idea, publishedAt, grade, originCount, engagement, title) ==
  [title |-> <<title>>,
   url |-> "https://a.example/1",
   snippet |-> <<"snippet">>,
   published_at |-> publishedAt,
   source |-> "hn",
   cluster_id |-> hashValue("https://a.example/1"),
   idea_cluster_id |-> idea,
   evidence_grade |-> grade,
   origin_count |-> originCount,
   engagement |-> engagement,
   timestamp_tier |-> IF publishedAt = Null THEN "T4" ELSE "T1"]

(* 1-3: equal grade and origins, an engagement of 5 on the oldest, none on
   the middle one, 2 on the newest; 4: the best grade; 5: undated; 6: another
   idea; 7: published at the start of a 7-day window; 8: inside the window;
   9, 10: published before the lookback horizon *)
BaselineItems ==
  <<BaselineItem(IdeaX, OldIso, "discussion-only", 1, <<5>>, "alpha"),
    BaselineItem(IdeaX, EdgeIso, "discussion-only", 1, NullNumber, "beta"),
    BaselineItem(IdeaX, "2024-02-02T12:00:00.000Z", "discussion-only", 1, <<2>>, "gamma"),
    BaselineItem(IdeaX, OldIso, "multi-confirmed", 2, <<9>>, "gamma"),
    BaselineItem(IdeaX, Null, "discussion-only", 1, <<7>>, "alpha"),
    BaselineItem(IdeaY, OldIso, "implementation-confirmed", 1, <<1>>, "beta"),
    BaselineItem(IdeaX, "2024-02-03T00:00:00.000Z", "discussion-only", 1, <<8>>, "gamma"),
    BaselineItem(IdeaX, RecentIso, "discussion-only", 1, <<8>>, "alpha"),
    BaselineItem(IdeaX, "2023-06-01T12:00:00.000Z", "discussion-only", 1, <<3>>, "alpha"),
    BaselineItem(IdeaX, "2023-06-01T12:00:00.000Z", "multi-confirmed", 3, <<9>>, "beta")>>

(* earlier runs: when each was created and which records it kept; the last
   two were created on and just before the default lookback horizon *)
BaselineRuns ==
  {[created_at |-> RecentIso, items |-> <<1, 2>>],
   [created_at |-> RecentIso, items |-> <<3, 5>>],
   [created_at |-> RecentIso, items |-> <<4, 6>>],
   [created_at |-> RecentIso, items |-> <<7, 8>>],
   [created_at |-> MidIso, items |-> <<1, 4>>],
   [created_at |-> "2023-08-14T00:00:00.000Z", items |-> <<9>>],
   [created_at |-> "2023-08-13T12:00:00.000Z", items |-> <<9, 10>>]}

InitBaseline ==
  /\ IdleCluster
  /\ IdleIntegrity
  /\ IdleRunId
  /\ IdleStore
  /\ IdleRun
  /\ IdleCalls

StoreBaselineRun ==
  /\ baselineCalls = <<>>
  /\ Cardinality(runsTable) < MaxBaselineRuns
  /\ \E earlier \in BaselineRuns :
       LET id == <<"run", Cardinality(runsTable) + 1>>
           run == [id |-> id, query |-> "signalforge", window_days |-> 90,
                   target |-> DEFAULT_TARGET, mode |-> "quick",
                   created_at |-> earlier.created_at, integrity_score |-> 95,
                   flags |-> <<>>]
           records == [i \in 1..Len(earlier.items) |->
                         BaselineItems[earlier.items[i]] @@ [run_id |-> id]]
           after == insertRun([runs |-> runsTable, items |-> itemsTable], run, records)
       IN  /\ runsTable' = after.runs
           /\ itemsTable' = after.items
  /\ UNCHANGED <<storage, insertCalls, callVars>>
  /\ UNCHANGED <<clusterVars, integrityVars, runIdVars, runVars>>

FetchBaselineItems ==
  /\ baselineCalls = <<>>
  /\ \E idea \in {IdeaX, IdeaY}, windowDays \in {7, 30}, lookbackDays \in {<<>>, <<30>>} :
       \E result \in fetchBaselineItems([runs |-> runsTable, items |-> itemsTable],
                                        idea, "2024-02-10", windowDays, lookbackDays) :
         baselineCalls' =
           <<[idea_cluster_id |-> idea, run_date |-> "2024-02-10",
              window_days |-> windowDays, lookback_days |-> lookbackDays,
              result |-> result]>>
  /\ UNCHANGED <<timestampCalls, policyCalls, collectCalls, routeCalls, anchorCalls, t4Calls, fetchRun>>
  /\ UNCHANGED <<clusterVars, integrityVars, runIdVars, storeVars, runVars>>

NextBaseline == StoreBaselineRun \/ FetchBaselineItems

SpecBaseline == InitBaseline /\ [][NextBaseline]_vars

(* the stored records a returned anchor can come from *)
C17_Origins(anchor) ==
  {i \in 1..Len(itemsTable) :
     /\ itemsTable[i].title = anchor.title
     /\ itemsTable[i].url = anchor.url
     /\ itemsTable[i].published_at = anchor.published_at
     /\ itemsTable[i].evidence_grade = anchor.evidence_grade
     /\ itemsTable[i].origin_count = anchor.origin_count
     /\ itemsTable[i].engagement = anchor.engagement}

(* C17. Baseline eligibility: fetchBaselineItems returns at most 2 records;
   each is a stored record of the requested idea cluster whose published_at is
   a date strictly before run date minus window_days, stored by a run created
   no earlier than run date minus lookback_days (180 when left out). *)
C17_BaselineEligibility ==
  \A k \in 1..Len(baselineCalls) :
    LET call == baselineCalls[k]
        start == runDateUtc(call.run_date)
        lookback == orDefault(call.lookback_days, 180)
    IN  /\ Len(call.result) <= 2
        /\ \A n \in 1..Len(call.result) :
             \E i \in C17_Origins(call.result[n]) :
               /\ itemsTable[i].idea_cluster_id = call.idea_cluster_id
               /\ itemsTable[i].published_at # Null
               /\ dateParse(itemsTable[i].published_at) # <<>>
               /\ dateParse(itemsTable[i].published_at)[1] < start - call.window_days * 24
               /\ \E run \in runsTable :
                    /\ run.id = itemsTable[i].run_id
                    /\ dateParse(run.created_at)[1] >= start - lookback * 24

(* two anchors were returned while a third eligible record and an undated
   record of the same idea stayed behind *)
C17_Witness ==
  /\ Len(baselineCalls) = 1
  /\ baselineCalls[1].idea_cluster_id = IdeaX
  /\ baselineCalls[1].window_days = 7
  /\ baselineCalls[1].lookback_days = <<>>
  /\ Len(baselineCalls[1].result) = 2
  /\ Len(itemsTable) = 4
  /\ \E i \in 1..Len(itemsTable) : itemsTable[i].published_at = Null
  /\ Cardinality({i \in 1..Len(itemsTable) :
         /\ itemsTable[i].published_at # Null
         /\ dateParse(itemsTable[i].published_at)[1] < runDateUtc("2024-02-10") - 7 * 24}) = 3

(* the order C18 claims: grade, then origins, then engagement with null last,
   then published_at, all descending, then title ascending *)
C18_ClaimedBefore(a, b) ==
  LET engagementRank(item) == IF item.engagement = NullNumber THEN -1 ELSE item.engagement[1]
      keys(item) ==
        <<gradeOrder(item.evidence_grade), item.origin_count, engagementRank(item),
          dateParse(item.published_at)[1]>>
      differ == {i \in 1..4 : keys(a)[i] # keys(b)[i]}
      first == CHOOSE i \in differ : \A j \in differ : i <= j
  IN  IF differ # {} THEN keys(a)[first] > keys(b)[first]
      ELSE titleCompare(a.title, b.title) < 0

(* C18 as claimed. Baseline ordering: the records fetchBaselineItems returns
   are the first 2 of the eligible records in the claimed order: no returned
   record is claimed after its successor, and no eligible record left out is
   claimed before a returned one. *)
C18_BaselineOrdering ==
  \A k \in 1..Len(baselineCalls) :
    LET call == baselineCalls[k]
        rows == CHOOSE list \in baselineRows([runs |-> runsTable, items |-> itemsTable],
                  call.idea_cluster_id,
                  buildBaselineCutoffs(call.run_date, call.window_days,
                    orDefault(call.lookback_days, 180))) : TRUE
    IN  /\ \A n \in 1..(Len(call.result) - 1) :
             ~C18_ClaimedBefore(call.result[n + 1], call.result[n])
        /\ \A i \in 1..Len(rows) :
             (\A n \in 1..Len(call.result) : call.result[n] # rows[i])
               => \A n \in 1..Len(call.result) : ~C18_ClaimedBefore(rows[i], call.result[n])

-----------------------------------------------------------------------------
(* Run pipeline: counts and tier policy *)

(* reduce into a Record<string, number>: how often each value occurs *)
tally(values) ==
  [value \in Range(values) |-> Cardinality({i \in 1..Len(values) : values[i] = value})]

countTimestampTiers(tiered) ==
  tally([i \in 1..Len(tiered) |-> tiered[i].timestamp_tier])

countBySource(kept) == tally([i \in 1..Len(kept) |-> kept[i].source])

(* mutant: T4 records are counted but not dropped *)
applyTimestampPolicyCountOnly(tiered, allowT4) ==
  IF allowT4 THEN [kept |-> tiered, excludedT4 |-> 0]
  ELSE LET notT4(item) == item.timestamp_tier # "T4"
       IN  [kept |-> tiered, excludedT4 |-> Len(tiered) - Len(SelectSeq(tiered, notT4))]

applyTimestampPolicy(tiered, allowT4) ==
  IF allowT4 THEN [kept |-> tiered, excludedT4 |-> 0]
  ELSE LET notT4(item) == item.timestamp_tier # "T4"
           kept == SelectSeq(tiered, notT4)
       IN  [kept |-> kept, excludedT4 |-> Len(tiered) - Len(kept)]

(* Array.prototype.slice(0, end) for an integer end: a negative end counts
   from the end of the list *)
sliceTo(items, end) ==
  SubSeq(items, 1, IF end < 0 THEN Max2(Len(items) + end, 0) ELSE Min2(end, Len(items)))

scoreItems(ranked) ==
  [i \in 1..Len(ranked) |-> ranked[i] @@ [score |-> 100 - (i - 1) * 3]]

-----------------------------------------------------------------------------
(* The stages of runEngine from the window filter to the ranked output, run
   on collected records with timestamps of every kind *)

MaxPolicyItems == 3

PolicyTimestamps == {Null, "", "not a date", RecentIso, OldIso}

PolicyUrls == <<"https://a.example/1", "https://a.example/2", "https://b.example/1", "file:///a">>

(* the records the collectors handed over: one per timestamp, in order *)
PolicyCollected(stamps) ==
  [i \in 1..Len(stamps) |-> CollectedItem(TextA, PolicyUrls[i], "reddit", stamps[i])]

InitPolicy ==
  /\ IdleCluster
  /\ IdleIntegrity
  /\ IdleRunId
  /\ IdleStore
  /\ IdleRun
  /\ IdleCalls

ApplyTimestampPolicy ==
  /\ policyCalls = <<>>
  /\ \E n \in 0..MaxPolicyItems, allowT4 \in BOOLEAN :
       \E stamps \in [1..n -> PolicyTimestamps] :
         LET inWindow(item) == isWithinWindow(item.published_at, DEFAULT_WINDOW)
         IN  \E windowFiltered \in {SelectSeq(PolicyCollected(stamps), inWindow)} :
             \E timestamped \in
                 {[i \in 1..Len(windowFiltered) |->
                     windowFiltered[i] @@
                     [timestamp_tier |->
                        assignTimestampTier(windowFiltered[i].published_at).tier]]} :
             \E policy \in {applyTimestampPolicy(timestamped, allowT4)} :
             \E deduped \in {clusterItems(policy.kept)} :
             \E ideas \in {clusterIdeas(deduped)} :
               policyCalls' =
                 <<[timestamped |-> timestamped,
                    allow_t4 |-> allowT4,
                    kept |-> policy.kept,
                    excluded_t4 |-> policy.excludedT4,
                    clustered |-> deduped,
                    ranked |-> sliceTo(scoreItems(ideas.items), DEFAULT_TOP_N)]>>
  /\ UNCHANGED <<timestampCalls, collectCalls, baselineCalls, routeCalls, anchorCalls, t4Calls, fetchRun>>
  /\ UNCHANGED <<clusterVars, integrityVars, runIdVars, storeVars, runVars>>

NextPolicy == ApplyTimestampPolicy

SpecPolicy == InitPolicy /\ [][NextPolicy]_vars

(* a record whose published_at is a date *)
C13_HasValidTimestamp(item) ==
  item.published_at # Null /\ dateParse(item.published_at) # <<>>

(* C13. Tier policy: with allow_t4 = false applyTimestampPolicy keeps no T4
   record, keeps the T1 records in their order and counts the T4 records as
   excluded_t4; with allow_t4 = true it keeps everything and counts 0; hence
   with allow_t4 = false every record that reaches clustering and the ranked
   output has a valid timestamp. *)
C13_TierPolicy ==
  \A k \in 1..Len(policyCalls) :
    LET call == policyCalls[k]
        isT4(item) == item.timestamp_tier = "T4"
        isT1(item) == item.timestamp_tier = "T1"
    IN  /\ call.allow_t4 =>
             call.kept = call.timestamped /\ call.excluded_t4 = 0
        /\ ~call.allow_t4 =>
             /\ \A i \in 1..Len(call.kept) : ~isT4(call.kept[i])
             /\ call.kept = SelectSeq(call.timestamped, isT1)
             /\ call.excluded_t4 = Len(SelectSeq(call.timestamped, isT4))
             /\ \A i \in 1..Len(call.clustered) : C13_HasValidTimestamp(call.clustered[i])
             /\ \A i \in 1..Len(call.ranked) : C13_HasValidTimestamp(call.ranked[i])

(* allow_t4 = false dropped an undated record that stood between two dated ones *)
C13_Witness ==
  /\ Len(policyCalls) = 1
  /\ ~policyCalls[1].allow_t4
  /\ Len(policyCalls[1].timestamped) = 3
  /\ policyCalls[1].timestamped[2].timestamp_tier = "T4"
  /\ policyCalls[1].excluded_t4 = 1
  /\ Len(policyCalls[1].kept) = 2
  /\ Len(policyCalls[1].ranked) = 2

-----------------------------------------------------------------------------
(* Run pipeline: collection, flags, telemetry *)

(* what the collectors of one call hand back: throws says the call threw.
   The reddit, hn and github calls sit in try/catch; the web call does not,
   so a web collector that throws makes collectSources reject (threw). *)
collectSources(sources, outputs) ==
  LET wantsReddit == includes(sources, "reddit")
      redditItems ==
        IF wantsReddit /\ ~outputs.reddit.throws THEN outputs.reddit.items ELSE <<>>
      redditFlags ==
        IF wantsReddit /\ (outputs.reddit.throws \/ outputs.reddit.failed)
        THEN <<"REDDIT_FETCH_FAILED">> ELSE <<>>
      wantsWeb == includes(sources, "web")
      webItems == IF wantsWeb /\ ~outputs.web.throws THEN outputs.web.items ELSE <<>>
      wantsHn == includes(sources, "hn")
      hnItems == IF wantsHn /\ ~outputs.hn.throws THEN outputs.hn.items ELSE <<>>
      hnFlags == IF wantsHn /\ outputs.hn.throws THEN <<"HN_FETCH_FAILED">> ELSE <<>>
      wantsGithub ==
        includes(sources, "github_issue") \/ includes(sources, "github_release")
      githubFilter(item) ==
        item.source \notin {"github_issue", "github_release"}
          \/ includes(sources, item.source)
      githubItems ==
        IF wantsGithub /\ ~outputs.github.throws
        THEN SelectSeq(outputs.github.items, githubFilter) ELSE <<>>
      githubFlags ==
        IF wantsGithub /\ (outputs.github.throws \/ outputs.github.failed)
        THEN <<"GITHUB_FETCH_FAILED">> ELSE <<>>
  IN  [threw |-> wantsWeb /\ outputs.web.throws,
       items |-> redditItems \o webItems \o hnItems \o githubItems,
       flags |-> redditFlags \o hnFlags \o githubFlags,
       excludedMissingTimestamp |->
         IF wantsReddit /\ ~outputs.reddit.throws
         THEN outputs.reddit.excluded_missing_timestamp ELSE 0,
       redditStrategyUsed |->
         IF ~wantsReddit THEN Null
         ELSE IF outputs.reddit.throws THEN "reddit_json"
         ELSE outputs.reddit.strategy_used]

-----------------------------------------------------------------------------
(* collectSources called with collectors that succeed, report failure after
   some records, or throw *)

NoWeb == [items |-> <<>>, throws |-> FALSE]

NoReddit ==
  [items |-> <<>>, failed |-> FALSE, throws |-> FALSE,
   strategy_used |-> "reddit_json", excluded_missing_timestamp |-> 0]

RedditBehaviours ==
  {[NoReddit EXCEPT !.items = <<CollectedItem(TextA, "https://a.example/1", "reddit", RecentIso)>>],
   [NoReddit EXCEPT !.items = <<CollectedItem(TextA, "https://a.example/1", "reddit", RecentIso)>>,
                    !.failed = TRUE],
   [NoReddit EXCEPT !.throws = TRUE]}

WebBehaviours ==
  {[items |-> <<CollectedItem(TextB, "https://a.example/2", "web", Null)>>, throws |-> FALSE],
   [items |-> <<>>, throws |-> TRUE]}

HnBehaviours ==
  {[items |-> <<CollectedItem(TextC, "https://b.example/1", "hn", RecentIso)>>, throws |-> FALSE],
   [items |-> <<>>, throws |-> TRUE]}

GithubBehaviours ==
  {[items |-> <<CollectedItem(TextD, "file:///a", "github_issue", MidIso),
                CollectedItem(TextE, "file:///b", "github_release", RecentIso)>>,
    failed |-> FALSE, throws |-> FALSE],
   [items |-> <<CollectedItem(TextD, "file:///a", "github_issue", MidIso)>>,
    failed |-> TRUE, throws |-> FALSE],
   [items |-> <<>>, failed |-> FALSE, throws |-> TRUE]}

SourceLists ==
  {<<"reddit", "web", "hn">>,
   <<"reddit", "hn", "github_issue">>,
   <<"web", "github_release">>,
   <<"reddit", "web", "hn", "github_issue", "github_release">>}

InitCollect ==
  /\ IdleCluster
  /\ IdleIntegrity
  /\ IdleRunId
  /\ IdleStore
  /\ IdleRun
  /\ IdleCalls

CollectSources ==
  /\ collectCalls = <<>>
  /\ \E sources \in SourceLists, reddit \in RedditBehaviours, web \in WebBehaviours,
        hn \in HnBehaviours, github \in GithubBehaviours :
       \E outputs \in {[reddit |-> reddit, web |-> web, hn |-> hn, github |-> github]} :
         collectCalls' =
           <<[sources |-> sources, outputs |-> outputs,
              result |-> collectSources(sources, outputs)]>>
  /\ UNCHANGED <<timestampCalls, policyCalls, baselineCalls, routeCalls, anchorCalls, t4Calls, fetchRun>>
  /\ UNCHANGED <<clusterVars, integrityVars, runIdVars, storeVars, runVars>>

NextCollect == CollectSources

SpecCollect == InitCollect /\ [][NextCollect]_vars

(* the collectors a source list enables *)
C15_Enabled(sources) ==
  {collector \in {"reddit", "web", "hn", "github"} :
     IF collector = "github"
     THEN includes(sources, "github_issue") \/ includes(sources, "github_release")
     ELSE includes(sources, collector)}

(* a collector failed: it threw, or it reported failure *)
C15_Failed(outputs, collector) ==
  \/ outputs[collector].throws
  \/ collector \in {"reddit", "github"} /\ outputs[collector].failed

(* the records a collector supplied, those returned before failing included *)
C15_Supplied(sources, outputs, collector) ==
  LET asked(item) ==
        item.source \notin {"github_issue", "github_release"} \/ includes(sources, item.source)
  IN  IF outputs[collector].throws THEN <<>>
      ELSE SelectSeq(outputs[collector].items, asked)

(* C15 as claimed. Per-source failure isolation: when an enabled collector
   (reddit, web, hn or github) throws or reports failure, collectSources
   still returns, records one flag per failed collector (REDDIT_FETCH_FAILED,
   HN_FETCH_FAILED, GITHUB_FETCH_FAILED for the three that have one), and
   returns every record the enabled collectors supplied. *)
C15_FailureIsolation ==
  \A k \in 1..Len(collectCalls) :
    LET call == collectCalls[k]
        enabled == C15_Enabled(call.sources)
        failed == {c \in enabled : C15_Failed(call.outputs, c)}
    IN  /\ ~call.result.threw
        /\ Len(call.result.flags) = Cardinality(failed)
        /\ "reddit" \in failed <=> includes(call.result.flags, "REDDIT_FETCH_FAILED")
        /\ "hn" \in failed <=> includes(call.result.flags, "HN_FETCH_FAILED")
        /\ "github" \in failed <=> includes(call.result.flags, "GITHUB_FETCH_FAILED")
        /\ \A c \in enabled :
             \A i \in 1..Len(C15_Supplied(call.sources, call.outputs, c)) :
               \E j \in 1..Len(call.result.items) :
                 call.result.items[j] = C15_Supplied(call.sources, call.outputs, c)[i]

buildFlags(total, kept) ==
  (IF total = 0 THEN <<"no_sources">> ELSE <<>>)
    \o (IF kept < total THEN <<"window_filtered">> ELSE <<>>)

(* Array.from(new Set(list)): first occurrences, in order *)
RECURSIVE uniqueInOrder(_, _)
uniqueInOrder(list, seen) ==
  IF list = <<>> THEN seen
  ELSE uniqueInOrder(Tail(list),
         IF includes(seen, Head(list)) THEN seen ELSE Append(seen, Head(list)))

mergeFlags(base, additional) == uniqueInOrder(base \o additional, <<>>)

(* calculateIntegrityScore of the run pipeline *)
calculateIntegrityScoreOfRun(kept, total, flagsCount) ==
  IF total = 0 THEN 0
  ELSE Max2(0, MathRound(<<kept * 100, total>>) - flagsCount * 5)

RECURSIVE insertNumber(_, _)
insertNumber(sorted, value) ==
  IF sorted = <<>> THEN <<value>>
  ELSE IF RatLt(value, Head(sorted)) THEN <<value>> \o sorted
  ELSE <<Head(sorted)>> \o insertNumber(Tail(sorted), value)

(* sort((a, b) => a - b) *)
RECURSIVE sortNumbers(_)
sortNumbers(values) ==
  IF values = <<>> THEN <<>>
  ELSE insertNumber(sortNumbers(Tail(values)), Head(values))

buildStats(values) ==
  IF Len(values) = 0 THEN [min |-> <<0, 1>>, median |-> <<0, 1>>, max |-> <<0, 1>>]
  ELSE LET sorted == sortNumbers(values)
           mid == Len(sorted) \div 2
       IN  [min |-> sorted[1],
            median |->
              IF Len(sorted) % 2 = 0
              THEN RatMul(RatAdd(sorted[mid], sorted[mid + 1]), <<1, 2>>)
              ELSE sorted[mid + 1],
            max |-> sorted[Len(sorted)]]

buildIdeaTelemetry(clusters) ==
  [idea_cluster_count |-> Len(clusters),
   origin_count_stats |->
     buildStats([k \in 1..Len(clusters) |-> <<clusters[k].origin_count, 1>>]),
   echo_risk_stats |-> buildStats([k \in 1..Len(clusters) |-> clusters[k].echo_risk]),
   evidence_grade_counts |->
     tally([k \in 1..Len(clusters) |-> clusters[k].evidence_grade])]

(* the text is a function of these inputs; it lists at most five claims *)
buildContextBlock(input) ==
  [query |-> input.query,
   windowDays |-> input.windowDays,
   sourceCounts |-> input.sourceCounts,
   integrityScore |-> input.integrityScore,
   flags |-> input.flags,
   target |-> input.target,
   claims |->
     [i \in 1..Min2(5, Len(input.topItems)) |->
        [title |-> input.topItems[i].title,
         source |-> input.topItems[i].source,
         evidence_grade |-> input.topItems[i].evidence_grade,
         origin_count |-> input.topItems[i].origin_count,
         echo_risk |-> input.topItems[i].echo_risk]]]

-----------------------------------------------------------------------------
(* Run pipeline: artifacts, persistence, runEngine *)

RUN_ID_HASH_LENGTH == 10

(* runId.slice(-RUN_ID_HASH_LENGTH): the truncated hash the id ends with *)
runFileSuffix(runId) == runId.hash

buildRunFolder(runDate, query) == <<"runs", runDate, slugify(query)>>

(* fs.writeFileSync: the file is created or replaced *)
writeFile(files, folder, name, content) ==
  [path \in DOMAIN files \cup {<<folder, name>>} |->
     IF path = <<folder, name>> THEN content ELSE files[path]]

(* mutant: the run file is not written *)
writeArtifactsWithoutRunFile(files, runId, contextBlockText, scored, options, integrityScore, flags, runDate, allowT4, counts, timestampTierCounts, redditStrategyUsed, ideaTelemetry) ==
  LET runFolder == buildRunFolder(runDate, options.query)
      suffix == runFileSuffix(runId)
      summary ==
        [query |-> options.query,
         mode |-> orDefault(options.mode, "quick"),
         target |-> orDefault(options.target, DEFAULT_TARGET),
         integrity |-> integrityScore,
         flags |-> flags]
      run ==
        [run_id |-> runId,
         options |-> options,
         integrity_score |-> integrityScore,
         flags |-> flags,
         allow_t4 |-> allowT4,
         counts |-> counts,
         timestamp_tier_counts |-> timestampTierCounts,
         idea_cluster_count |-> ideaTelemetry.idea_cluster_count,
         origin_count_stats |-> ideaTelemetry.origin_count_stats,
         echo_risk_stats |-> ideaTelemetry.echo_risk_stats,
         evidence_grade_counts |-> ideaTelemetry.evidence_grade_counts,
         reddit |-> [strategy_used |-> redditStrategyUsed]]
      withContext == writeFile(files, runFolder, <<"context_block", suffix>>, contextBlockText)
      withSummary == writeFile(withContext, runFolder, <<"summary", suffix>>, summary)
      withSources == writeFile(withSummary, runFolder, <<"sources", suffix>>, scored)
  IN  [files |-> withSources,
       runFolder |-> runFolder]

writeArtifacts(files, runId, contextBlockText, scored, options, integrityScore, flags, runDate, allowT4, counts, timestampTierCounts, redditStrategyUsed, ideaTelemetry) ==
  LET runFolder == buildRunFolder(runDate, options.query)
      suffix == runFileSuffix(runId)
      summary ==
        [query |-> options.query,
         mode |-> orDefault(options.mode, "quick"),
         target |-> orDefault(options.target, DEFAULT_TARGET),
         integrity |-> integrityScore,
         flags |-> flags]
      run ==
        [run_id |-> runId,
         options |-> options,
         integrity_score |-> integrityScore,
         flags |-> flags,
         allow_t4 |-> allowT4,
         counts |-> counts,
         timestamp_tier_counts |-> timestampTierCounts,
         idea_cluster_count |-> ideaTelemetry.idea_cluster_count,
         origin_count_stats |-> ideaTelemetry.origin_count_stats,
         echo_risk_stats |-> ideaTelemetry.echo_risk_stats,
         evidence_grade_counts |-> ideaTelemetry.evidence_grade_counts,
         reddit |-> [strategy_used |-> redditStrategyUsed]]
      withContext == writeFile(files, runFolder, <<"context_block", suffix>>, contextBlockText)
      withSummary == writeFile(withContext, runFolder, <<"summary", suffix>>, summary)
      withSources == writeFile(withSummary, runFolder, <<"sources", suffix>>, scored)
  IN  [files |-> writeFile(withSources, runFolder, <<"run", suffix>>, run),
       runFolder |-> runFolder]

persistRun(build, db, runId, options, windowDays, target, mode, integrityScore, flags, persisted) ==
  LET runRecord ==
        [id |-> runId,
         query |-> options.query,
         window_days |-> windowDays,
         target |-> target,
         mode |-> mode,
         created_at |-> NowIso,
         integrity_score |-> integrityScore,
         flags |-> flags]
      itemRecords ==
        [i \in 1..Len(persisted) |->
           [run_id |-> runId,
            title |-> persisted[i].title,
            url |-> persisted[i].url,
            snippet |-> persisted[i].snippet,
            published_at |-> persisted[i].published_at,
            source |-> persisted[i].source,
            cluster_id |-> persisted[i].cluster_id,
            timestamp_tier |-> persisted[i].timestamp_tier]]
  IN  insertRunOf(build, db, runRecord, itemRecords)

(* new Date().toISOString().slice(0, 10) at the fixed now *)
getRunDate == "2024-02-10"

-----------------------------------------------------------------------------
(* runEngine called request after request on one store and one disk *)

EngineQueries == {QueryFooBar, QuerySpaced}

EngineOptions(query, deterministic, allowT4) ==
  RunOptions(query, ProfileUnset, deterministic) @@
  [sources |-> <<<<"reddit", "hn", "github_issue">>>>,
   allow_t4 |-> allowT4,
   run_date |-> <<>>]

(* reddit: a dated and an undated post; hn: the first url again; github: an
   issue and a release nobody asked for *)
OutputsMixed ==
  [reddit |->
     [NoReddit EXCEPT !.items =
        <<CollectedItem(TextA, "https://a.example/1", "reddit", RecentIso),
          CollectedItem(TextB, "https://a.example/2", "reddit", Null)>>],
   web |-> NoWeb,
   hn |-> [items |-> <<CollectedItem(TextB, "https://a.example/1", "hn", RecentIso),
                       CollectedItem(TextC, "https://a.example/2", "hn", OldIso)>>,
           throws |-> FALSE],
   github |->
     [items |-> <<CollectedItem(TextA, "https://b.example/1", "github_issue", MidIso),
                  CollectedItem(TextC, "https://b.example/1", "github_release", RecentIso)>>,
      failed |-> FALSE, throws |-> FALSE]]

(* reddit throws, hn has a post from outside the window, github reports failure *)
OutputsDegraded ==
  [reddit |-> [NoReddit EXCEPT !.throws = TRUE],
   web |-> NoWeb,
   hn |-> [items |-> <<CollectedItem(TextC, "https://b.example/1", "hn", OldIso),
                       CollectedItem(TextC, "file:///a", "hn", "yesterday")>>,
           throws |-> FALSE],
   github |-> [items |-> <<>>, failed |-> TRUE, throws |-> FALSE]]

(* nothing anywhere *)
OutputsEmpty ==
  [reddit |-> NoReddit,
   web |-> NoWeb,
   hn |-> [items |-> <<>>, throws |-> TRUE],
   github |-> [items |-> <<>>, failed |-> FALSE, throws |-> TRUE]]

CollectorOutputs == {OutputsMixed, OutputsDegraded, OutputsEmpty}

InitRun ==
  /\ IdleCluster
  /\ IdleCalls
  /\ IdleIntegrity
  /\ IdleRunId
  /\ storage \in StorageBuilds
  /\ runsTable = {}
  /\ itemsTable = <<>>
  /\ insertCalls = <<>>
  /\ IdleRun

(* the names a plain object inherits from Object.prototype: reading one of
   them from the counts object gives a function, not undefined, so the loop
   over the requested sources does not set it to 0 and JSON.stringify, which
   writes own properties, leaves it out *)
ObjectPrototypeKeys ==
  {"constructor", "hasOwnProperty", "isPrototypeOf", "propertyIsEnumerable",
   "toLocaleString", "toString", "valueOf", "__proto__"}

(* runEngine, statement by statement; a value bound in a one-element set is a
   const of the code *)
(* one call of runEngine: it rejects when collectSources rejects (nothing is
   written or stored by then) and when insertRun throws (the artifacts are
   written by then) *)
runEngine(options, outputs) ==
     \E windowDays \in {orDefault(options.window_days, DEFAULT_WINDOW)},
        target \in {orDefault(options.target, DEFAULT_TARGET)},
        mode \in {orDefault(options.mode, "quick")},
        requestedSources \in {orDefault(options.sources, <<"reddit", "web", "hn">>)},
        allowT4 \in {orDefault(options.allow_t4, DEFAULT_ALLOW_T4)},
        runDate \in {orDefault(options.run_date, getRunDate)},
        limit \in {orDefault(options.top_n, DEFAULT_TOP_N)} :
     \E runId \in {buildRunId(options, runDate, requestedSources, uuidsDrawn + 1)} :
     \E sourced \in {collectSources(requestedSources, outputs)} :
     \E collected \in {sourced.items} :
     \E windowFiltered \in
          {LET inWindow(item) == isWithinWindow(item.published_at, windowDays)
           IN  SelectSeq(collected, inWindow)} :
     \E timestamped \in
          {[i \in 1..Len(windowFiltered) |->
              windowFiltered[i] @@
              [timestamp_tier |->
                 assignTimestampTier(windowFiltered[i].published_at).tier]]} :
     \E timestampTierCounts \in {countTimestampTiers(timestamped)} :
     \E policy \in {applyTimestampPolicy(timestamped, allowT4)} :
     \E keptBySource \in {countBySource(policy.kept)} :
     \E perSourceCounts \in
          {[source \in DOMAIN keptBySource \cup
                         {requested \in Range(requestedSources) :
                            requested \notin ObjectPrototypeKeys} |->
              IF source \in DOMAIN keptBySource THEN keptBySource[source] ELSE 0]} :
     \E urlClustered \in {clusterItems(policy.kept)} :
     \E ideas \in {clusterIdeas(urlClustered)} :
     \E ranked \in {scoreItems(ideas.items)} :
     \E scored \in {sliceTo(ranked, limit)} :
     \E sourceCounts \in {countBySource(ideas.items)} :
     \E flags \in
          {mergeFlags(buildFlags(Len(collected), Len(windowFiltered)), sourced.flags)} :
     \E integrityScore \in
          {calculateIntegrityScoreOfRun(Len(windowFiltered), Len(collected), Len(flags))} :
     \E ideaTelemetry \in {buildIdeaTelemetry(ideas.clusters)} :
     \E contextBlockText \in
          {buildContextBlock(
             [query |-> options.query,
              windowDays |-> windowDays,
              sourceCounts |-> sourceCounts,
              integrityScore |-> integrityScore,
              flags |-> flags,
              target |-> target,
              topItems |-> scored])} :
     \E written \in
          {writeArtifacts(artifacts, runId, contextBlockText, scored, options,
             integrityScore, flags, runDate, allowT4,
             [collected |-> Len(collected),
              kept |-> Len(policy.kept),
              excluded_t4 |-> policy.excludedT4,
              excluded_missing_timestamp |-> sourced.excludedMissingTimestamp,
              per_source_counts |-> perSourceCounts],
             timestampTierCounts, sourced.redditStrategyUsed, ideaTelemetry)} :
     \E stored \in
          {persistRun(storage, [runs |-> runsTable, items |-> itemsTable], runId,
             options, windowDays, target, mode, integrityScore, flags, urlClustered)} :
     \E threw \in
          {sourced.threw \/ stored.outcome \in {"threw at run", "threw at items"}} :
       /\ uuidsDrawn' =
            IF orDefault(options.deterministic, TRUE) THEN uuidsDrawn ELSE uuidsDrawn + 1
       /\ artifacts' = IF sourced.threw THEN artifacts ELSE written.files
       /\ runsTable' = IF sourced.threw THEN runsTable ELSE stored.runs
       /\ itemsTable' = IF sourced.threw THEN itemsTable ELSE stored.items
       /\ responses' =
            Append(responses,
              [options |-> options,
               outputs |-> outputs,
               outcome |-> IF threw THEN "rejected" ELSE "resolved",
               collected |-> Len(collected),
               collectorFlags |-> sourced.flags,
               persisted |-> IF sourced.threw THEN "not reached" ELSE stored.outcome,
               sources |-> scored,
               computed |->
                 [run_id |-> runId,
                  run_folder |-> written.runFolder,
                  window_days |-> windowDays,
                  limit |-> limit,
                  requested_sources |-> requestedSources,
                  window_filtered |-> windowFiltered,
                  kept_records |-> policy.kept,
                  idea_clustered |-> ideas.items,
                  context_block_text |-> contextBlockText,
                  integrity_score |-> integrityScore,
                  flags |-> flags,
                  allow_t4 |-> allowT4,
                  counts |->
                    [collected |-> Len(collected),
                     kept |-> Len(policy.kept),
                     excluded_t4 |-> policy.excludedT4,
                     excluded_missing_timestamp |-> sourced.excludedMissingTimestamp,
                     per_source_counts |-> perSourceCounts],
                  timestamp_tier_counts |-> timestampTierCounts],
               response |->
                 IF threw THEN <<>>
                 ELSE <<[run_id |-> runId,
                         integrity_score |-> integrityScore,
                         flags |-> flags,
                         artifacts |->
                           [run_folder |-> written.runFolder,
                            context_block |->
                              <<written.runFolder, <<"context_block", runFileSuffix(runId)>>>>,
                            summary |->
                              <<written.runFolder, <<"summary", runFileSuffix(runId)>>>>,
                            sources |->
                              <<written.runFolder, <<"sources", runFileSuffix(runId)>>>>,
                            run |->
                              <<written.runFolder, <<"run", runFileSuffix(runId)>>>>],
                         context_block_text |-> contextBlockText]>>])

RunEngine ==
  /\ Len(responses) < MaxRuns
  /\ \E query \in EngineQueries, deterministic \in {<<>>, <<FALSE>>},
        allowT4Option \in {<<>>, <<FALSE>>}, outputs \in CollectorOutputs :
       runEngine(EngineOptions(query, deterministic, allowT4Option), outputs)
  /\ UNCHANGED <<storage, insertCalls, requests, clusterVars, integrityVars>>
  /\ UNCHANGED callVars

NextRun == RunEngine

SpecRun == InitRun /\ [][NextRun]_vars

-----------------------------------------------------------------------------
(* Runs that attach baseline anchors: the pipeline of runEngine followed by
   one fetchBaselineItems per surfaced idea cluster, then persistence with the
   idea columns *)

MaxAnchorRuns == 2

(* the record of the earlier collection (ten days old), a recent record of the
   same idea from another domain, both, and a recent record of another idea
   next to an undated one *)
AnchorBatches ==
  {<<CollectedItem(TextA, "https://a.example/1", "reddit", MidIso)>>,
   <<CollectedItem(TextA, "https://b.example/1", "hn", RecentIso)>>,
   <<CollectedItem(TextA, "https://a.example/1", "reddit", MidIso),
     CollectedItem(TextA, "https://b.example/1", "hn", RecentIso)>>,
   <<CollectedItem(TextC, "https://a.example/2", "reddit", RecentIso),
     CollectedItem(TextA, "https://a.example/1", "reddit", Null)>>}

(* run_date left out, the earlier date of the smoke test, a later date *)
AnchorRunDates == {<<>>, <<"2024-02-01">>, <<"2024-02-20">>}

AnchorOptions(windowDays, runDate) ==
  RunOptions(QueryFooBar, ProfileUnset, <<>>) @@
  [sources |-> <<<<"reddit", "hn">>>>, allow_t4 |-> <<FALSE>>, run_date |-> runDate]

(* the idea clusters of the ranked records, each once, in ranking order *)
RECURSIVE surfacedClusters(_, _)
surfacedClusters(ranked, seen) ==
  IF ranked = <<>> THEN <<>>
  ELSE IF Head(ranked).idea_cluster_id \in seen
       THEN surfacedClusters(Tail(ranked), seen)
       ELSE <<[idea_cluster_id |-> Head(ranked).idea_cluster_id,
               current_title |-> Head(ranked).title]>>
            \o surfacedClusters(Tail(ranked), seen \cup {Head(ranked).idea_cluster_id})

(* the baseline summaries a run can build: for every surfaced idea cluster one
   result of fetchBaselineItems(idea_cluster_id, runDate, windowDays) *)
buildBaselineSummary(db, ranked, runDate, windowDays) ==
  LET surfaced == surfacedClusters(ranked, {})
      found(k) == fetchBaselineItems(db, surfaced[k].idea_cluster_id, runDate, windowDays, <<>>)
  IN  {[k \in 1..Len(surfaced) |-> surfaced[k] @@ [baselines |-> choice[k]]] :
         choice \in {c \in [1..Len(surfaced) -> UNION {found(k) : k \in 1..Len(surfaced)}] :
                       \A k \in 1..Len(surfaced) : c[k] \in found(k)}}

InitAnchors ==
  /\ IdleCluster
  /\ IdleIntegrity
  /\ IdleRunId
  /\ IdleStore
  /\ IdleRun
  /\ IdleCalls

RunEngineWithBaselines ==
  /\ Len(anchorCalls) < MaxAnchorRuns
  /\ \E collected \in AnchorBatches, runDateOption \in AnchorRunDates, window \in {7, 30} :
     \E options \in {[AnchorOptions(window, runDateOption) EXCEPT !.window_days = <<window>>]} :
     \E windowDays \in {orDefault(options.window_days, DEFAULT_WINDOW)},
        runDate \in {orDefault(options.run_date, getRunDate)},
        limit \in {orDefault(options.top_n, DEFAULT_TOP_N)} :
     \E runId \in {buildRunId(options, runDate, options.sources[1], uuidsDrawn + 1)} :
     \E windowFiltered \in
          {LET inWindow(item) == isWithinWindow(item.published_at, windowDays)
           IN  SelectSeq(collected, inWindow)} :
     \E timestamped \in
          {[i \in 1..Len(windowFiltered) |->
              windowFiltered[i] @@
              [timestamp_tier |->
                 assignTimestampTier(windowFiltered[i].published_at).tier]]} :
     \E policy \in {applyTimestampPolicy(timestamped, orDefault(options.allow_t4, DEFAULT_ALLOW_T4))} :
     \E ideas \in {clusterIdeas(clusterItems(policy.kept))} :
     \E ranked \in {scoreItems(ideas.items)} :
     \E scored \in {sliceTo(ranked, limit)} :
     \E baselineSummary \in
          buildBaselineSummary([runs |-> runsTable, items |-> itemsTable],
                               scored, runDate, windowDays) :
     \E stored \in
          {insertRun([runs |-> runsTable, items |-> itemsTable],
             [id |-> runId, query |-> options.query, window_days |-> windowDays,
              target |-> DEFAULT_TARGET, mode |-> "quick", created_at |-> NowIso,
              integrity_score |-> 0, flags |-> <<>>],
             [i \in 1..Len(ideas.items) |-> ideas.items[i] @@ [run_id |-> runId]])} :
       /\ runsTable' = stored.runs
       /\ itemsTable' = stored.items
       /\ anchorCalls' =
            Append(anchorCalls,
              [run_date |-> runDate,
               window_days |-> windowDays,
               collected |-> collected,
               sources |-> scored,
               baselineSummary |-> baselineSummary])
  /\ UNCHANGED <<storage, insertCalls>>
  /\ UNCHANGED <<timestampCalls, policyCalls, collectCalls, baselineCalls, routeCalls, t4Calls, fetchRun>>
  /\ UNCHANGED <<clusterVars, integrityVars, runIdVars, runVars>>

NextAnchors == RunEngineWithBaselines

SpecAnchors == InitAnchors /\ [][NextAnchors]_vars

(* the baseline anchors of a run *)
C19_Anchors(call) ==
  UNION {Range(call.baselineSummary[k].baselines) : k \in 1..Len(call.baselineSummary)}

(* C19 as claimed. Baseline anchors and ranked output are disjoint: no record
   returned as a baseline anchor of a run (a url with its published_at) is
   among the ranked records of that run. *)
C19_AnchorsDisjointFromRanked ==
  \A k \in 1..Len(anchorCalls) :
    \A anchor \in C19_Anchors(anchorCalls[k]) :
      \A i \in 1..Len(anchorCalls[k].sources) :
        ~(/\ anchorCalls[k].sources[i].url = anchor.url
          /\ anchorCalls[k].sources[i].published_at = anchor.published_at)

-----------------------------------------------------------------------------
(* POST /run: runRoute answers request bodies, calling runEngine *)

MaxRouteCalls == 2

(* the source names collectSources knows *)
KnownSources == {"reddit", "web", "hn", "github_issue", "github_release"}

RouteBody(query, windowDays, sources, topN) ==
  [query |-> query, window_days |-> windowDays, sources |-> sources, top_n |-> topN]

(* bodies without a query and with an empty one, a plain body, a negative
   window, a source name no collector has, and both; top_n left out, 0, 1, 2
   and -1; a source name that is also a property of every object *)
RouteBodies ==
  {RouteBody(<<>>, <<>>, <<>>, <<>>),
   RouteBody(<<<<>>>>, <<-5>>, <<<<"reddit", "twitter">>>>, <<>>),
   RouteBody(<<QueryFooBar>>, <<>>, <<>>, <<>>),
   RouteBody(<<QueryFooBar>>, <<7>>, <<<<"reddit", "hn">>>>, <<1>>),
   RouteBody(<<QueryFooBar>>, <<-5>>, <<>>, <<>>),
   RouteBody(<<QueryFooBar>>, <<>>, <<<<"reddit", "twitter">>>>, <<0>>),
   RouteBody(<<QuerySpaced>>, <<-5>>, <<<<"twitter">>>>, <<>>),
   RouteBody(<<QueryFooBar>>, <<>>, <<<<"reddit", "hn", "github_issue">>>>, <<2>>),
   RouteBody(<<QueryFooBar>>, <<>>, <<<<"reddit", "hn", "github_issue">>>>, <<-1>>),
   RouteBody(<<QueryFooBar>>, <<>>, <<<<"reddit", "constructor">>>>, <<>>)}

(* what the collectors return for a request *)
RouteOutputs == {OutputsMixed, OutputsEmpty}

InitRoute ==
  /\ IdleCluster
  /\ IdleCalls
  /\ IdleIntegrity
  /\ IdleRunId
  /\ storage \in StorageBuilds
  /\ runsTable = {}
  /\ itemsTable = <<>>
  /\ insertCalls = <<>>
  /\ IdleRun

(* one request: 400 when !query, otherwise the body's fields handed to
   runEngine and its result sent; a rejected runEngine leaves the request
   unanswered *)
runRoute(body, outputs) ==
  IF body.query = <<>> \/ body.query[1] = <<>>
  THEN /\ routeCalls' =
            Append(routeCalls,
              [body |-> body, outputs |-> outputs, status |-> "400",
               started |-> FALSE, wrote |-> FALSE, stored |-> FALSE])
       /\ UNCHANGED <<uuidsDrawn, artifacts, runsTable, itemsTable, responses>>
  ELSE /\ runEngine(
            [query |-> body.query[1],
             window_days |-> body.window_days,
             target |-> <<>>,
             mode |-> <<>>,
             sources |-> body.sources,
             top_n |-> body.top_n,
             deterministic |-> <<>>,
             allow_t4 |-> <<>>,
             run_date |-> <<>>],
            outputs)
       /\ routeCalls' =
            Append(routeCalls,
              [body |-> body, outputs |-> outputs,
               status |-> IF responses'[Len(responses')].outcome = "resolved"
                          THEN "200" ELSE "unanswered",
               started |-> TRUE,
               wrote |-> artifacts' # artifacts,
               stored |-> runsTable' # runsTable])

RunRoute ==
  /\ Len(routeCalls) < MaxRouteCalls
  /\ \E body \in RouteBodies, outputs \in RouteOutputs : runRoute(body, outputs)
  /\ UNCHANGED <<storage, insertCalls, requests, clusterVars, integrityVars>>
  /\ UNCHANGED <<timestampCalls, policyCalls, collectCalls, baselineCalls, anchorCalls, t4Calls, fetchRun>>

NextRoute == RunRoute

SpecRoute == InitRoute /\ [][NextRoute]_vars

(* a body the claim calls a configuration error *)
C20_ConfigurationError(body) ==
  \/ body.query = <<>>
  \/ body.query[1] = <<>>
  \/ (body.window_days # <<>> /\ body.window_days[1] < 0)
  \/ (body.sources # <<>> /\ \E i \in 1..Len(body.sources[1]) :
                               body.sources[1][i] \notin KnownSources)

(* C20 as claimed. Configuration errors are rejected at the boundary: a
   request without a query, with a negative window_days or with an unknown
   source name is answered with an error, and runEngine is not started for it:
   nothing is written and no run is stored. *)
C20_ConfigurationErrorsRejected ==
  \A k \in 1..Len(routeCalls) :
    C20_ConfigurationError(routeCalls[k].body) =>
      /\ routeCalls[k].status = "400"
      /\ ~routeCalls[k].started
      /\ ~routeCalls[k].wrote
      /\ ~routeCalls[k].stored

(* the annotations of the ranked records *)
C8_Annotations(ranked) ==
  [i \in 1..Len(ranked) |->
     [url |-> ranked[i].url,
      cluster_id |-> ranked[i].cluster_id,
      idea_cluster_id |-> ranked[i].idea_cluster_id,
      origin_id |-> ranked[i].origin_id]]

(* C8 as claimed: two runEngine calls, one after the other, with identical
   options and identical collector outputs at the same now both return, and
   return the same run_id, run folder, integrity score and flags, and
   annotate the records with the same cluster_id, idea_cluster_id and
   origin_id. *)
C8_DeterminismAcrossRuns ==
  \A i, j \in 1..Len(responses) :
    LET first == responses[i]
        second == responses[j]
    IN  (i < j /\ first.options = second.options /\ first.outputs = second.outputs)
          => /\ first.outcome = "resolved"
             /\ second.outcome = "resolved"
             /\ first.response[1].run_id = second.response[1].run_id
             /\ first.response[1].artifacts.run_folder
                  = second.response[1].artifacts.run_folder
             /\ first.response[1].integrity_score = second.response[1].integrity_score
             /\ first.response[1].flags = second.response[1].flags
             /\ C8_Annotations(first.sources) = C8_Annotations(second.sources)

(* the file of a run on disk *)
C21_File(computed, kind) ==
  artifacts[<<computed.run_folder, <<kind, runFileSuffix(computed.run_id)>>>>]

(* the four files of a run are on disk with what the run computed *)
C21_ArtifactsComplete(call) ==
  LET computed == call.computed
      paths == {<<computed.run_folder, <<kind, runFileSuffix(computed.run_id)>>>> :
                  kind \in {"context_block", "summary", "sources", "run"}}
  IN  /\ paths \subseteq DOMAIN artifacts
      /\ C21_File(computed, "context_block") = computed.context_block_text
      /\ C21_File(computed, "sources") = call.sources
      /\ C21_File(computed, "summary").integrity = computed.integrity_score
      /\ C21_File(computed, "summary").flags = computed.flags
      /\ C21_File(computed, "run").run_id = computed.run_id
      /\ C21_File(computed, "run").integrity_score = computed.integrity_score
      /\ C21_File(computed, "run").flags = computed.flags
      /\ C21_File(computed, "run").counts = computed.counts

(* C21. Persistence failure: when insertRun throws during a runEngine call,
   the call is rejected (the error reaches the caller), and right after the
   call the context block, summary, sources and run files written for that run
   are on disk, complete and with the values the run computed. *)
C21_PersistenceFailure ==
  responses # <<>> =>
    LET call == responses[Len(responses)]
    IN  call.persisted \in {"threw at run", "threw at items"} =>
          /\ call.outcome = "rejected"
          /\ C21_ArtifactsComplete(call)

(* insertRun threw on a run that had computed a context block with claims *)
C21_Witness ==
  /\ responses # <<>>
  /\ responses[Len(responses)].persisted = "threw at run"
  /\ responses[Len(responses)].sources # <<>>
  /\ C21_ArtifactsComplete(responses[Len(responses)])

(* published_at parses to a time more than windowDays before now *)
C23_OlderThanWindow(item, windowDays) ==
  /\ item.published_at # Null
  /\ dateParse(item.published_at) # <<>>
  /\ dateNow - dateParse(item.published_at)[1] > windowDays * 24

(* C23. Authoritative window filter: whatever the collectors returned, no
   record older than window_days is among the ranked records of a run, in the
   sources file written for it, or among the records counted in kept. *)
C23_AuthoritativeWindowFilter ==
  /\ \A k \in 1..Len(responses) :
       LET call == responses[k]
       IN  /\ \A i \in 1..Len(call.sources) :
                ~C23_OlderThanWindow(call.sources[i], call.computed.window_days)
           /\ call.computed.counts.kept = Len(call.computed.kept_records)
           /\ \A i \in 1..Len(call.computed.kept_records) :
                ~C23_OlderThanWindow(call.computed.kept_records[i], call.computed.window_days)
  /\ (responses # <<>> /\ responses[Len(responses)].persisted # "not reached") =>
       LET call == responses[Len(responses)]
           file == C21_File(call.computed, "sources")
       IN  \A i \in 1..Len(file) : ~C23_OlderThanWindow(file[i], call.computed.window_days)

(* a collector returned a record older than the window next to records that
   were kept *)
C23_Witness ==
  /\ responses # <<>>
  /\ LET call == responses[Len(responses)]
     IN  /\ \E i \in 1..Len(call.outputs.hn.items) :
              C23_OlderThanWindow(call.outputs.hn.items[i], call.computed.window_days)
         /\ call.computed.counts.collected > call.computed.counts.kept
         /\ call.computed.counts.kept > 0
         /\ call.sources # <<>>

(* C24 as claimed. Scorer: the ranked output of a run is the deduplicated
   items in their order, the item at index i scored 100 - 3*i (indices from
   0), cut to the first top_n: it has min(top_n, number of deduplicated items)
   items for every top_n the caller passes. *)
C24_ScorerAndTopN ==
  \A k \in 1..Len(responses) :
    LET call == responses[k]
        items == call.computed.idea_clustered
    IN  /\ Len(call.sources) = Min2(call.computed.limit, Len(items))
        /\ \A i \in 1..Len(call.sources) :
             /\ call.sources[i].score = 100 - 3 * (i - 1)
             /\ call.sources[i] = items[i] @@ [score |-> call.sources[i].score]
        /\ \A i \in 1..(Len(call.sources) - 1) :
             call.sources[i].score > call.sources[i + 1].score

-----------------------------------------------------------------------------
(* One batch of collected records run under both timestamp policies.  The
   tier counts handed to calculateIntegrityScore are those of the records the
   policy kept: the scorer consumes the full filtered set, and the smoke test
   sees the timestamp component differ between the two policies while the
   timestamp_tier_counts of run.json are those from before the policy. *)

MaxDatedRecords == 200

DatedCounts == {0, 1, 2, 3, MaxDatedRecords - 1, MaxDatedRecords}

UndatedCounts == 0..3

StaleCounts == {0, 1}

(* what the collector returned: records dated inside the window, records
   without a timestamp and records older than the window *)
TierBatch(dated, undated, stale) ==
  [i \in 1..dated |-> CollectedItem(TextB, "https://a.example/1", "reddit", RecentIso)]
    \o [i \in 1..undated |-> CollectedItem(TextB, "https://a.example/2", "reddit", Null)]
    \o [i \in 1..stale |-> CollectedItem(TextC, "https://a.example/3", "reddit", OldIso)]

(* the integrity step of a run: window filter, tiers, policy, then the score
   of the kept records *)
integrityOfRun(collected, windowDays, allowT4) ==
  LET inWindow(item) == isWithinWindow(item.published_at, windowDays)
      windowFiltered == SelectSeq(collected, inWindow)
      timestamped ==
        [i \in 1..Len(windowFiltered) |->
           windowFiltered[i] @@
           [timestamp_tier |-> assignTimestampTier(windowFiltered[i].published_at).tier]]
      policy == applyTimestampPolicy(timestamped, allowT4)
  IN  [window_filtered |-> Len(windowFiltered),
       kept |-> Len(policy.kept),
       integrity |->
         calculateIntegrityScore(
           [timestamp_tier_counts |-> countTimestampTiers(policy.kept),
            flags |-> <<>>,
            kept |-> Len(policy.kept),
            echo_risk_stats |-> <<>>,
            evidence_grade_counts |-> <<>>,
            baseline |-> <<>>])]

InitTierScore ==
  /\ IdleCluster
  /\ IdleCalls
  /\ IdleIntegrity
  /\ IdleRunId
  /\ IdleStore
  /\ IdleRun

(* a run of a batch; the second run is of the same batch under the other
   policy *)
RunUnderPolicy ==
  /\ t4Calls = <<>> \/ Len(t4Calls) = 1
  /\ \E dated \in DatedCounts, undated \in UndatedCounts, stale \in StaleCounts,
        allowT4 \in BOOLEAN :
       /\ t4Calls # <<>> =>
            /\ dated = t4Calls[1].dated
            /\ undated = t4Calls[1].undated
            /\ stale = t4Calls[1].stale
            /\ allowT4 # t4Calls[1].allow_t4
       /\ \E run \in {integrityOfRun(TierBatch(dated, undated, stale), DEFAULT_WINDOW,
                        allowT4)} :
            t4Calls' =
              Append(t4Calls,
                [dated |-> dated, undated |-> undated, stale |-> stale,
                 allow_t4 |-> allowT4,
                 window_filtered |-> run.window_filtered,
                 kept |-> run.kept,
                 timestamp |-> run.integrity.components.timestamp])
  /\ UNCHANGED <<clusterVars, integrityVars, runIdVars, storeVars, runVars>>
  /\ UNCHANGED <<timestampCalls, policyCalls, collectCalls, baselineCalls, routeCalls,
                 anchorCalls, fetchRun>>

NextTierScore == RunUnderPolicy

SpecTierScore == InitTierScore /\ [][NextTierScore]_vars

(* two runs of one batch, the first with allow_t4 = false and the second with
   allow_t4 = true, the batch holding a record without a timestamp and a
   record with a valid one *)
C25_Pair(without, with) ==
  /\ ~without.allow_t4
  /\ with.allow_t4
  /\ without.dated = with.dated
  /\ without.undated = with.undated
  /\ without.stale = with.stale
  /\ with.undated >= 1
  /\ with.dated + with.stale >= 1

(* C25, what holds of the rounded percentages.  For the same collected
   records, with at least one in-window record without a timestamp and at
   least one record with a valid timestamp, the run with allow_t4 = false never reports a smaller timestamp component
   than the run with allow_t4 = true; it reports a strictly greater one
   exactly when the records without a timestamp are at least one in 200 of
   the in-window records (their percentage rounds to 1 or more). *)
C25_ExcludingT4NeverLowersTimestamp ==
  \A i \in 1..Len(t4Calls), j \in 1..Len(t4Calls) :
    C25_Pair(t4Calls[i], t4Calls[j]) =>
      /\ RatLe(t4Calls[j].timestamp, t4Calls[i].timestamp)
      /\ RatLt(t4Calls[j].timestamp, t4Calls[i].timestamp)
           <=> 200 * t4Calls[j].undated >= t4Calls[j].window_filtered

(* C25's case happens: a batch run under both policies, the run without T4
   keeping fewer records and reporting the strictly greater component *)
C25_Witness ==
  \E i \in 1..Len(t4Calls), j \in 1..Len(t4Calls) :
    /\ C25_Pair(t4Calls[i], t4Calls[j])
    /\ t4Calls[i].kept >= 1
    /\ t4Calls[j].kept > t4Calls[i].kept
    /\ RatLt(t4Calls[j].timestamp, t4Calls[i].timestamp)

(* C25 as claimed.  The run with allow_t4 = false reports a strictly greater
   timestamp component than the run with allow_t4 = true on the same records. *)
C25_ExcludingT4ImprovesTimestamp ==
  \A i \in 1..Len(t4Calls), j \in 1..Len(t4Calls) :
    C25_Pair(t4Calls[i], t4Calls[j]) =>
      RatLt(t4Calls[j].timestamp, t4Calls[i].timestamp)

(* the accounting of C26 for the sources in a set: the counts per source sum
   to kept, each of the sources has an entry, which is 0 when no kept record
   is of that source, and the records that passed the window filter are the
   kept and the excluded ones and are all counted in a tier *)
C26_Accounting(computed, sources) ==
  LET counts == computed.counts
  IN  /\ sumCounts(counts.per_source_counts) = counts.kept
      /\ \A source \in sources :
           /\ source \in DOMAIN counts.per_source_counts
           /\ counts.per_source_counts[source] =
                Cardinality({i \in 1..Len(computed.kept_records) :
                               computed.kept_records[i].source = source})
      /\ counts.kept + counts.excluded_t4 = Len(computed.window_filtered)
      /\ sumCounts(computed.timestamp_tier_counts) = Len(computed.window_filtered)
      /\ counts.collected >= counts.kept
      /\ counts.kept = Len(computed.kept_records)

(* C26 as claimed.  Run accounting: in every run the per_source_counts values
   sum to counts.kept and every requested source has an entry (0 when it kept
   nothing); kept + excluded_t4 is the number of records that passed the
   window filter, which is also the sum of timestamp_tier_counts; and
   collected >= kept. *)
C26_RunAccounting ==
  \A k \in 1..Len(responses) :
    C26_Accounting(responses[k].computed, Range(responses[k].computed.requested_sources))

(* C26 for the requested sources that are not names of Object.prototype *)
C26_RunAccountingOfOwnNames ==
  \A k \in 1..Len(responses) :
    C26_Accounting(responses[k].computed,
      Range(responses[k].computed.requested_sources) \ ObjectPrototypeKeys)

(* a run that lost a record to the window filter, kept records of one
   requested source and none of another *)
C26_Witness ==
  \E k \in 1..Len(responses) :
    LET computed == responses[k].computed
    IN  /\ computed.counts.kept > 0
        /\ computed.counts.collected > Len(computed.window_filtered)
        /\ \E source \in Range(computed.requested_sources) :
             /\ source \in DOMAIN computed.counts.per_source_counts
             /\ computed.counts.per_source_counts[source] = 0

(* the state of the tables after the k-th insertRun call *)
C27_After(k) ==
  IF k < Len(insertCalls) THEN insertCalls[k + 1].before
  ELSE [runs |-> runsTable, items |-> itemsTable]

(* the item rows of a run id in a state of the tables *)
C27_ItemsOf(db, id) ==
  LET ofRun(row) == row.run_id = id
  IN  SelectSeq(db.items, ofRun)

(* the rows a list of item records is stored as *)
C27_Rows(records) == [i \in 1..Len(records) |-> itemRow(records[i])]

(* C27 as claimed.  insertRun of storage/schema.sql is all-or-nothing: when
   storing an item of a run fails, no run row for that run id remains stored;
   no state of the database has a run row without the complete item set of a
   call for that run id; and a later retry of insertRun with the same run id
   stores the run together with all its items. *)
C27_InsertRunAllOrNothing ==
  storage = "schema.sql" =>
    /\ \A k \in 1..Len(insertCalls) :
         insertCalls[k].outcome = "threw at items" =>
           ~runIdTaken(C27_After(k).runs, insertCalls[k].run.id)
    /\ \A row \in runsTable :
         \E k \in 1..Len(insertCalls) :
           /\ insertCalls[k].run.id = row.id
           /\ C27_ItemsOf([runs |-> runsTable, items |-> itemsTable], row.id) =
                C27_Rows(insertCalls[k].records)
    /\ \A j \in 1..Len(insertCalls), k \in 1..Len(insertCalls) :
         (/\ j < k
          /\ insertCalls[j].run.id = insertCalls[k].run.id
          /\ insertCalls[j].outcome = "threw at items"
          /\ \A i \in 1..Len(insertCalls[k].records) :
               ~itemRowRejected(insertCalls[k].records[i]))
           => /\ runIdTaken(C27_After(k).runs, insertCalls[k].run.id)
              /\ C27_ItemsOf(C27_After(k), insertCalls[k].run.id) =
                   C27_Rows(insertCalls[k].records)

(* the item transaction by itself is all-or-nothing: a call that threw at an
   item stored no item row, and a call that inserted stored all of them *)
C27_ItemsAllOrNothing ==
  storage = "schema.sql" =>
    \A k \in 1..Len(insertCalls) :
      LET call == insertCalls[k]
      IN  /\ call.outcome = "threw at items" => C27_After(k).items = call.before.items
          /\ call.outcome = "inserted" =>
               C27_After(k).items = call.before.items \o C27_Rows(call.records)

(* a failed call followed by a retry with the same run id and items that can
   all be stored *)
C27_Witness ==
  /\ storage = "schema.sql"
  /\ \E j \in 1..Len(insertCalls), k \in 1..Len(insertCalls) :
       /\ j < k
       /\ insertCalls[j].run.id = insertCalls[k].run.id
       /\ insertCalls[j].outcome = "threw at items"
       /\ insertCalls[k].records # <<>>
       /\ \A i \in 1..Len(insertCalls[k].records) :
            ~itemRowRejected(insertCalls[k].records[i])

(* the run_<suffix>.json of a run id, in the folder of its run date and slug *)
C28_RunFilePath(id) == <<<<"runs", id.run_date, id.slug>>, <<"run", runFileSuffix(id)>>>>

(* C28 as claimed.  Store/artifact agreement: after any sequence of runEngine
   calls, also calls that share one run id and one run folder, the stored run
   row of a run id has the integrity_score and the flags of the
   run_<suffix>.json on disk for that run id. *)
C28_StoreAgreesWithArtifact ==
  \A row \in runsTable :
    /\ C28_RunFilePath(row.id) \in DOMAIN artifacts
    /\ artifacts[C28_RunFilePath(row.id)].run_id = row.id
    /\ artifacts[C28_RunFilePath(row.id)].integrity_score = row.integrity_score
    /\ artifacts[C28_RunFilePath(row.id)].flags = row.flags

(* the row and the file agree as long as every stored run id was computed by
   one call only *)
C28_AgreementOfSingleRuns ==
  (\A j \in 1..Len(responses), k \in 1..Len(responses) :
     responses[j].computed.run_id = responses[k].computed.run_id => j = k)
    => C28_StoreAgreesWithArtifact

(* two calls on one run id whose collectors returned different records, the
   run stored *)
C28_Witness ==
  \E j \in 1..Len(responses), k \in 1..Len(responses) :
    /\ j < k
    /\ responses[j].computed.run_id = responses[k].computed.run_id
    /\ responses[j].computed.integrity_score # responses[k].computed.integrity_score
    /\ runIdTaken(runsTable, responses[k].computed.run_id)

(* the candidate rows of a fetchBaselineItems call, in the orders the database
   can return them *)
C29_CandidateRows(call) ==
  baselineRows([runs |-> runsTable, items |-> itemsTable], call.idea_cluster_id,
    buildBaselineCutoffs(call.run_date, call.window_days,
      orDefault(call.lookback_days, BASELINE_DEFAULT_LOOKBACK_DAYS)))

(* C29 as claimed.  compareBaselineItems is a consistent ordering of the
   candidate rows of a call, antisymmetric and transitive also when a row has
   no engagement, so fetchBaselineItems has one result for the candidate
   rows, whatever the order in which the database returned them. *)
C29_ConsistentOrdering ==
  \A k \in 1..Len(baselineCalls) :
    /\ \A rows \in C29_CandidateRows(baselineCalls[k]) : isConsistentComparator(rows)
    /\ \A result \in
            fetchBaselineItems([runs |-> runsTable, items |-> itemsTable],
              baselineCalls[k].idea_cluster_id, baselineCalls[k].run_date,
              baselineCalls[k].window_days, baselineCalls[k].lookback_days) :
         result = baselineCalls[k].result

(* the same when every candidate row has an engagement *)
C29_ConsistentWithEngagement ==
  \A k \in 1..Len(baselineCalls) :
    (\A rows \in C29_CandidateRows(baselineCalls[k]) :
       \A i \in 1..Len(rows) : rows[i].engagement # NullNumber)
      => /\ \A rows \in C29_CandidateRows(baselineCalls[k]) : isConsistentComparator(rows)
         /\ \A result \in
                 fetchBaselineItems([runs |-> runsTable, items |-> itemsTable],
                   baselineCalls[k].idea_cluster_id, baselineCalls[k].run_date,
                   baselineCalls[k].window_days, baselineCalls[k].lookback_days) :
              result = baselineCalls[k].result

(* a call with three or more candidate rows, all with an engagement, two of
   them published at the same time *)
C29_Witness ==
  \E k \in 1..Len(baselineCalls) :
    \E rows \in C29_CandidateRows(baselineCalls[k]) :
      /\ Len(rows) >= 3
      /\ \A i \in 1..Len(rows) : rows[i].engagement # NullNumber
      /\ \E i \in 1..Len(rows), j \in 1..Len(rows) :
           i # j /\ rows[i].published_at = rows[j].published_at

-----------------------------------------------------------------------------
(* The fetch helpers of the collectors: fetchWithRetry of hnCollector.ts,
   fetchJson of the reddit collector and fetchWithRetry of githubCollector.ts,
   statement by statement.  A call is a record: where it stands (pc), the
   attempt counter, the requests sent, the timeout timer of the attempt, the
   timers set and not yet handed to clearTimeout, the back-off waits, the last
   error, what the try block is leaving with, and the outcome. *)

HN_RETRIES == 2

RETRY_ATTEMPTS == 2

MAX_ATTEMPTS == 2

FetchHelpers == {"hn", "reddit", "github"}

(* how a request ends: a 2xx response, a 2xx response whose body is not JSON,
   a response with an error status, a network error, and the abort of the
   timeout timer *)
FetchResults == {"ok", "ok, body not JSON", "status 500", "network error", "aborted"}

(* let attempt = 0 in hnCollector.ts, let attempt = 1 in the other two *)
firstAttempt(helper) == IF helper = "hn" THEN 0 ELSE 1

(* mutant: the loops run one attempt longer *)
loopContinuesOnceMore(helper, attempt) ==
  IF helper = "hn" THEN attempt <= HN_RETRIES + 1
  ELSE IF helper = "reddit" THEN attempt <= RETRY_ATTEMPTS + 1
  ELSE attempt <= MAX_ATTEMPTS + 1

(* the loop conditions *)
loopContinues(helper, attempt) ==
  IF helper = "hn" THEN attempt <= HN_RETRIES
  ELSE IF helper = "reddit" THEN attempt <= RETRY_ATTEMPTS
  ELSE attempt <= MAX_ATTEMPTS

(* the catch blocks of hn and reddit: whether a back-off follows the failure *)
backsOff(helper, attempt) ==
  IF helper = "hn" THEN ~(attempt >= HN_RETRIES)
  ELSE IF helper = "reddit" THEN attempt < RETRY_ATTEMPTS
  ELSE FALSE

(* 500 * (attempt + 1) and 400 * attempt milliseconds *)
backoffMs(helper, attempt) ==
  IF helper = "hn" THEN 500 * (attempt + 1) ELSE 400 * attempt

(* the error a request of the helper ends with, or <<>> when the try block
   returns: github returns every response, hn and reddit throw on !response.ok,
   reddit awaits response.json() inside the try block *)
errorOf(helper, result, request) ==
  IF result \in {"network error", "aborted"} THEN <<[kind |-> result, request |-> request]>>
  ELSE IF helper = "github" THEN <<>>
  ELSE IF result = "status 500" THEN <<[kind |-> result, request |-> request]>>
  ELSE IF helper = "reddit" /\ result = "ok, body not JSON"
  THEN <<[kind |-> "SyntaxError", request |-> request]>>
  ELSE <<>>

FetchStart(helper) ==
  [helper |-> helper, pc |-> "loop", attempt |-> firstAttempt(helper), requests |-> 0,
   timer |-> "none", uncleared |-> 0, waits |-> <<>>, settled |-> <<>>,
   lastError |-> <<>>, leaving |-> "", waitedAfter |-> 0, outcome |-> <<>>]

InitFetch ==
  /\ IdleCluster
  /\ IdleIntegrity
  /\ IdleRunId
  /\ IdleStore
  /\ IdleRun
  /\ timestampCalls = <<>>
  /\ policyCalls = <<>>
  /\ collectCalls = <<>>
  /\ baselineCalls = <<>>
  /\ routeCalls = <<>>
  /\ anchorCalls = <<>>
  /\ t4Calls = <<>>
  /\ fetchRun \in {FetchStart(helper) : helper \in FetchHelpers}

FetchUnchanged ==
  UNCHANGED <<clusterVars, integrityVars, runIdVars, storeVars, runVars, timestampCalls,
              policyCalls, collectCalls, baselineCalls, routeCalls, anchorCalls, t4Calls>>

(* the head of the loop: the next attempt sets its timer and sends its
   request, or the loop is over and the statement after it throws *)
EnterLoop ==
  /\ fetchRun.pc = "loop"
  /\ fetchRun' =
       IF loopContinues(fetchRun.helper, fetchRun.attempt)
       THEN [fetchRun EXCEPT !.pc = "fetch", !.requests = @ + 1, !.timer = "armed",
                             !.uncleared = @ + 1]
       ELSE [fetchRun EXCEPT !.pc = "done",
                             !.outcome =
                               <<[kind |-> "threw",
                                  error |-> IF fetchRun.lastError = <<>>
                                            THEN <<[kind |-> "request failed", request |-> 0]>>
                                            ELSE fetchRun.lastError]>>]
  /\ FetchUnchanged

(* setTimeout(() => controller.abort(), ...) runs while the request is in
   flight or, in hn and reddit, while the catch block waits for the back-off *)
TimeoutFires ==
  /\ fetchRun.pc \in {"fetch", "backoff"}
  /\ fetchRun.timer = "armed"
  /\ fetchRun' = [fetchRun EXCEPT !.timer = "fired"]
  /\ FetchUnchanged

(* await fetch(...) settles; an aborted request rejects.  github clears the
   timer and returns the response whatever its status; hn and reddit return
   from the try block or throw into the catch block *)
FetchSettles ==
  /\ fetchRun.pc = "fetch"
  /\ \E result \in FetchResults :
       /\ (fetchRun.timer = "fired") <=> (result = "aborted")
       /\ \E error \in {errorOf(fetchRun.helper, result, fetchRun.requests)} :
            fetchRun' =
              IF error # <<>>
              THEN [fetchRun EXCEPT !.pc = "catch", !.lastError = error,
                                    !.settled = Append(@, result)]
              ELSE IF fetchRun.helper = "github"
              THEN [fetchRun EXCEPT !.pc = "done", !.timer = "cleared",
                                    !.uncleared = @ - 1,
                                    !.settled = Append(@, result),
                                    !.outcome =
                                      <<[kind |-> "returned",
                                         response |-> [result |-> result,
                                                       request |-> fetchRun.requests]]>>]
              ELSE [fetchRun EXCEPT !.pc = "finally", !.leaving = "return",
                                    !.settled = Append(@, result)]
  /\ FetchUnchanged

(* the catch blocks: lastError is set (in FetchSettles); hn breaks out of the
   loop at the last attempt and otherwise awaits the back-off, reddit awaits
   the back-off unless it was the last attempt, github clears the timer and
   goes round the loop *)
Catch ==
  /\ fetchRun.pc = "catch"
  /\ fetchRun' =
       IF fetchRun.helper = "github"
       THEN [fetchRun EXCEPT !.pc = "loop", !.attempt = @ + 1,
                             !.timer = IF @ = "armed" THEN "cleared" ELSE @,
                             !.uncleared = @ - 1]
       ELSE IF backsOff(fetchRun.helper, fetchRun.attempt)
       THEN [fetchRun EXCEPT !.pc = "backoff",
                             !.waits = Append(@, backoffMs(fetchRun.helper, fetchRun.attempt)),
                             !.waitedAfter = fetchRun.requests]
       ELSE [fetchRun EXCEPT !.pc = "finally",
                             !.leaving = IF fetchRun.helper = "hn" THEN "break" ELSE ""]
  /\ FetchUnchanged

(* the back-off timer of the catch block runs out *)
BackoffElapses ==
  /\ fetchRun.pc = "backoff"
  /\ fetchRun' = [fetchRun EXCEPT !.pc = "finally"]
  /\ FetchUnchanged

(* finally { clearTimeout(...) } of hn and reddit, then the return of the try
   block, the throw after hn's break, or the next round of the loop *)
Finally ==
  /\ fetchRun.pc = "finally"
  /\ \E cleared \in {[fetchRun EXCEPT !.timer = IF @ = "armed" THEN "cleared" ELSE @,
                                      !.uncleared = @ - 1, !.leaving = ""]} :
       fetchRun' =
         IF fetchRun.leaving = "return"
         THEN [cleared EXCEPT !.pc = "done",
                              !.outcome =
                                <<[kind |-> "returned",
                                   response |-> [result |-> "ok",
                                                 request |-> fetchRun.requests]]>>]
         ELSE IF fetchRun.leaving = "break"
         THEN [cleared EXCEPT !.pc = "done",
                              !.outcome = <<[kind |-> "threw", error |-> fetchRun.lastError]>>]
         ELSE [cleared EXCEPT !.pc = "loop", !.attempt = @ + 1]
  /\ FetchUnchanged

NextFetch ==
  \/ EnterLoop
  \/ TimeoutFires
  \/ FetchSettles
  \/ Catch
  \/ BackoffElapses
  \/ Finally

(* a pending request settles (its timer aborts it at the latest), a timer
   runs out and a continuation runs: every step that can be taken is taken *)
SpecFetch == InitFetch /\ [][NextFetch]_vars /\ WF_vars(NextFetch)

(* the requests a helper may send *)
C30_MostRequests(helper) ==
  IF helper = "hn" THEN HN_RETRIES + 1
  ELSE IF helper = "reddit" THEN RETRY_ATTEMPTS
  ELSE MAX_ATTEMPTS

(* what C30 says of a call as far as it got: the requests are within the
   helper's bound; a finished call returned the response of its last request
   or threw the error of its last request; no back-off followed the last
   failed request; and between attempts and at the end every timer set was
   handed to clearTimeout and none is armed *)
C30_Bounded ==
  /\ fetchRun.requests <= C30_MostRequests(fetchRun.helper)
  /\ fetchRun.pc = "done" =>
       /\ fetchRun.outcome # <<>>
       /\ fetchRun.outcome[1].kind = "returned" =>
            fetchRun.outcome[1].response.request = fetchRun.requests
       /\ fetchRun.outcome[1].kind = "threw" =>
            /\ fetchRun.outcome[1].error = fetchRun.lastError
            /\ fetchRun.lastError[1].request = fetchRun.requests
            /\ fetchRun.requests = C30_MostRequests(fetchRun.helper)
       /\ fetchRun.waitedAfter < fetchRun.requests
       /\ Len(fetchRun.waits) < fetchRun.requests
  /\ fetchRun.pc \in {"loop", "done"} =>
       /\ fetchRun.uncleared = 0
       /\ fetchRun.timer # "armed"

(* C30.  Bounded retries in collectors: every collector fetch helper ends
   after a bounded number of requests (hn at most HN_RETRIES + 1 = 3, reddit
   at most RETRY_ATTEMPTS = 2, github at most MAX_ATTEMPTS = 2), with a
   response or by throwing the last error; it does not wait for a back-off
   after the final failed attempt, and the timeout timer of every attempt is
   cleared on every path. *)
C30_BoundedRetries == []C30_Bounded /\ <>(fetchRun.pc = "done")

(* hn gave up after three failed requests, one of them aborted by its timer,
   having waited 500 ms and 1000 ms between them *)
C30_Witness ==
  /\ fetchRun.helper = "hn"
  /\ fetchRun.pc = "done"
  /\ fetchRun.outcome[1].kind = "threw"
  /\ fetchRun.requests = 3
  /\ fetchRun.waits = <<500, 1000>>
  /\ \E i \in 1..Len(fetchRun.settled) : fetchRun.settled[i] = "aborted"

(* C14 as claimed. Zero records: a runEngine call whose enabled sources
   supplied no record at all completes, and its result has integrity score 0
   and the flag no_sources. *)
C14_ZeroRecordsNotFatal ==
  \A k \in 1..Len(responses) :
    responses[k].collected = 0 =>
      /\ responses[k].outcome = "resolved"
      /\ responses[k].response[1].integrity_score = 0
      /\ includes(responses[k].response[1].flags, "no_sources")

====
